---- MODULE Spec2Model ----
(***************************************************************************)
(* A model of the code-context indexer: the Embedding Manager (metadata    *)
(* list, vector index, chunk hashes), the Local Filesystem Scanner, the    *)
(* Dependency Graph Builder and the RAG Orchestrator's incremental sync.   *)
(*                                                                         *)
(* Abstractions used throughout:                                           *)
(*  - sha256 is collision free: a hash is modelled by the tuple hashed.    *)
(*  - model.encode(text) is a deterministic function of the text: the      *)
(*    vector of a text is <<"vec", text>>.                                 *)
(*  - the FAISS flat index is the sequence of the vectors added to it;     *)
(*    index.reconstruct(i) yields the i-th vector added.                   *)
(***************************************************************************)
EXTENDS Integers, Sequences, FiniteSets, TLC

VARIABLES
    metadata,       \* EmbeddingManager.metadata: sequence of chunk dicts
    index,          \* EmbeddingManager.index: sequence of vectors
    chunk_hashes,   \* EmbeddingManager.chunk_hashes: chunk key -> hash
    em_last,        \* the last Embedding Manager call and what it returned
    em_trace,       \* whether em_last also records the call's chunk lists
    fs,             \* the project directory: relative path -> file content
    unreadable,     \* the files whose bytes cannot be read (PermissionError)
    unlistable,     \* the directories os.listdir / os.walk cannot list
    disk,           \* the working directory: persisted file name -> content
    scan_file_hashes,  \* LocalScanManager.file_hashes
    graph,          \* DependencyGraphBuilder.graph: node key -> node
    gb_file_hashes, \* DependencyGraphBuilder.file_hashes
    gb_changed_files,  \* DependencyGraphBuilder.changed_files
    history_last,   \* ChangeAnalyzer.history: path -> its newest snapshot
    auto_sync,      \* RAGManager.auto_sync
    sync_interval,  \* RAGManager.sync_interval, in seconds
    sync_thread,    \* RAGManager.sync_thread: where the loop thread stands
    file_tree_cache,  \* RAGManager.file_tree_cache
    API_KEY,        \* the configured shared secret of the HTTP API
    response,       \* the last HTTP request and the response it got
    background_tasks,  \* the BackgroundTasks of the API not yet run
    processes,      \* ProcessManager.processes: process id -> child process
    process_counter,  \* ProcessManager.process_counter
    platform,       \* sys.platform of the Control Panel
    handler_changed_files,  \* FileChangeHandler.changed_files (the buffer)
    last_processed_time,    \* FileChangeHandler.last_processed_time
    now,            \* time.time(), in seconds
    calls,          \* the process_changed_files call each thread is in
    starters,       \* the start_auto_sync call each thread is in
    stray_threads,  \* the loop threads self.sync_thread no longer refers to
    replaced,       \* the Orchestrators POST /rebuild replaced by a new one
    last            \* the last Scanner / Builder / Orchestrator operation

em_vars == <<metadata, index, chunk_hashes, em_last, em_trace>>

env_vars == <<fs, unreadable, unlistable>>

gb_vars == <<graph, gb_file_hashes, gb_changed_files>>

\* what the Embedding Manager, the Scanner and the Builder leave alone
pm_vars == <<processes, process_counter, platform>>

watch_vars == <<handler_changed_files, last_processed_time, now>>

\* the calls in progress when the operations are taken step by step
run_vars == <<calls, starters, stray_threads, replaced>>

\* what the Orchestrator and the HTTP API leave alone
ext_vars == <<pm_vars, watch_vars, run_vars>>

\* the same without the calls in progress
app_vars_but_run == <<history_last, auto_sync, sync_interval, sync_thread,
                      file_tree_cache, API_KEY, response, background_tasks,
                      pm_vars, watch_vars, starters, stray_threads,
                      replaced>>

app_vars == <<history_last, auto_sync, sync_interval, sync_thread,
              file_tree_cache, API_KEY, response, background_tasks, ext_vars>>

vars == <<metadata, index, chunk_hashes, em_last, em_trace, fs, unreadable,
          unlistable, disk, scan_file_hashes, graph, gb_file_hashes,
          gb_changed_files, history_last, auto_sync, sync_interval,
          sync_thread, file_tree_cache, API_KEY, response,
          background_tasks, processes, process_counter, platform,
          handler_changed_files, last_processed_time, now, calls, starters,
          stray_threads, replaced, last>>

(***************************************************************************)
(* Generic helpers                                                         *)
(***************************************************************************)
Range(s) == {s[i] : i \in DOMAIN s}

Min(a, b) == IF a < b THEN a ELSE b

\* f with key k set to v (a Python dict assignment d[k] = v)
DictSet(f, k, v) == [x \in DOMAIN f \cup {k} |-> IF x = k THEN v ELSE f[x]]

\* f without the keys in ks (del d[k] / d.pop(k, None))
DictDel(f, ks) == [x \in DOMAIN f \ ks |-> f[x]]

EmptyDict == [x \in {} |-> 0]

\* the sequences over S of length 0..n
SeqsUpTo(S, n) == UNION {[1..k -> S] : k \in 0..n}

(***************************************************************************)
(* The project directory and the working directory                         *)
(***************************************************************************)
\* A file's content is the set of the top-level function definitions of
\* its text, each with the names it calls; a file that is not there has no
\* content.
NoFile == [exists |-> FALSE, defs |-> {}]
Source(defs) == [exists |-> TRUE, defs |-> defs]

SrcHelper == Source({[name |-> "helper", calls |-> {}]})           \* def helper(): pass
SrcHelperCalls == Source({[name |-> "helper", calls |-> {"main"}]})  \* def helper(): main()
SrcMain == Source({[name |-> "main", calls |-> {"helper"}]})       \* def main(): helper()
SrcMainNoCall == Source({[name |-> "main", calls |-> {}]})         \* def main(): pass
SrcVendored == Source({[name |-> "vendored", calls |-> {}]})
SrcTest == Source({[name |-> "test_helper", calls |-> {"helper"}]})  \* def test_helper(): helper()
Binary == Source({})

\* the entries of the project directory: Entries[p] lists a file's
\* directories from the root and its file name
Files == {"a.py", "sub/b.py", "venv/v.py", "n.bin", "test_a.py"}

Entries(p) ==
    CASE p = "a.py" -> [dirs |-> <<>>, name |-> "a.py", ext |-> ".py"]
      [] p = "sub/b.py" -> [dirs |-> <<"sub">>, name |-> "b.py", ext |-> ".py"]
      [] p = "venv/v.py" -> [dirs |-> <<"venv">>, name |-> "v.py", ext |-> ".py"]
      [] p = "n.bin" -> [dirs |-> <<>>, name |-> "n.bin", ext |-> ".bin"]
      [] p = "test_a.py" -> [dirs |-> <<>>, name |-> "test_a.py", ext |-> ".py"]

\* the contents the files can take
Contents(p) ==
    CASE p = "a.py" -> {SrcHelper, SrcHelperCalls}
      [] p = "sub/b.py" -> {SrcMain, SrcMainNoCall}
      [] p = "venv/v.py" -> {SrcVendored}
      [] p = "n.bin" -> {Binary}
      [] p = "test_a.py" -> {SrcTest}

\* the files the environment writes and deletes, and the ones whose
\* permissions it changes
EditedFiles == {"a.py", "sub/b.py"}
ProtectableFiles == {"a.py"}
ProtectableDirs == {"sub"}

\* entry.startswith('.') and entry.startswith('test_') on the names above
StartsWithDot(name) == name \in {".git", ".idea", ".vscode"}
StartsWithTestPrefix(name) == name \in {"test_a.py"}

Exists(p) == fs[p].exists

\* a persisted file of the working directory
NoDiskFile == [exists |-> FALSE, data |-> EmptyDict]
Saved(data) == [exists |-> TRUE, data |-> data]

\* os.path.join(self.local_path, rel_path) and os.path.relpath back
LocalPath == "/project"
get_full_path(rel_path) == <<LocalPath, rel_path>>
get_relative_path(full_path) == full_path[2]

\* the persisted files of the working directory
ScannerHashFile == "file_hashes.json"
BuilderHashFile == "file_hashes.json"
GraphFile == "dependency_graph.json"
DiskFiles == {ScannerHashFile, BuilderHashFile, GraphFile}

\* hashlib.sha256(bytes).hexdigest()
Sha256(content) == <<"sha256", content>>
EmptyHash == <<"", NoFile>>

EnvInit ==
    /\ fs = [p \in Files |->
               CASE p = "a.py" -> SrcHelper
                 [] p = "sub/b.py" -> SrcMain
                 [] p = "venv/v.py" -> SrcVendored
                 [] p = "n.bin" -> Binary
                 [] p = "test_a.py" -> NoFile]
    /\ unreadable = {}
    /\ unlistable = {}
    /\ disk = [f \in DiskFiles |-> NoDiskFile]

(***************************************************************************)
(* Local Filesystem Scanner  (src/app/local_scan_manager.py)               *)
(***************************************************************************)
\* RAGManager.__init__ lines 49-52, handed to the Scanner at lines 72-76
IgnoreDirs == {".git", "venv", "__pycache__", "node_modules", ".idea", ".vscode"}
TrackExtensions == {".py", ".js", ".ts", ".html", ".css", ".md", ".json"}

NoDepthLimit == -1     \* max_depth = None
MaxDepths == {NoDepthLimit, 0, 1}

\* line 213: the entry is skipped
SkippedEntry(name) == StartsWithDot(name) \/ name \in IgnoreDirs

\* lines 189-221: scan_directory reaches the directory holding p.  The
\* directory at depth d is entered only if d <= max_depth, every directory
\* on the way is neither skipped nor unlistable.
DirectoryScanned(p, max_depth) ==
    LET dirs == Entries(p).dirs
    IN /\ max_depth = NoDepthLimit \/ Len(dirs) <= max_depth
       /\ \A i \in DOMAIN dirs :
             ~SkippedEntry(dirs[i]) /\ dirs[i] \notin unlistable

\* lines 211-225: current_files
CurrentFiles(max_depth) ==
    {p \in Files :
        /\ Exists(p)
        /\ DirectoryScanned(p, max_depth)
        /\ ~SkippedEntry(Entries(p).name)
        /\ Entries(p).ext \in TrackExtensions}

\* calculate_file_hash, lines 138-172: "" when the file cannot be read
calculate_file_hash(p) ==
    IF ~Exists(p) \/ p \in unreadable THEN EmptyHash ELSE Sha256(fs[p])

\* lines 228-235: the files of current_files reported as changed
ChangedAmong(current, hashes, force_rescan) ==
    {p \in current :
        /\ calculate_file_hash(p) # EmptyHash
        /\ \/ force_rescan
           \/ p \notin DOMAIN hashes
           \/ hashes[p] # calculate_file_hash(p)}

\* scan_for_changes with line 233 (self.file_hashes[rel_path] = file_hash)
\* left out
ScanOutcome_ForgetsHashes(force_rescan, max_depth, hashes) ==
    LET current == CurrentFiles(max_depth)
        changed == ChangedAmong(current, hashes, force_rescan)
        deleted_files == DOMAIN hashes \ current
    IN [hashes |-> DictDel(hashes, deleted_files),
        changed_files |-> changed \cup deleted_files,
        deleted_files |-> deleted_files]

\* scan_for_changes as a function of the state before the call
ScanOutcome(force_rescan, max_depth, hashes) ==
    LET current == CurrentFiles(max_depth)
        changed == ChangedAmong(current, hashes, force_rescan)
        hashes1 == [p \in DOMAIN hashes \cup changed |->
                       IF p \in changed THEN calculate_file_hash(p)
                       ELSE hashes[p]]
        deleted_files == DOMAIN hashes1 \ current
    IN [hashes |-> DictDel(hashes1, deleted_files),
        changed_files |-> changed \cup deleted_files,
        deleted_files |-> deleted_files]

\* _load_file_hashes, lines 112-124
LoadFileHashes(d) ==
    IF d[ScannerHashFile].exists THEN d[ScannerHashFile].data ELSE EmptyDict

ScanInit ==
    /\ scan_file_hashes = EmptyDict
    /\ last = [op |-> "none"]

\* LocalScanManager.__init__, lines 98-110
NewScanner ==
    /\ scan_file_hashes' = LoadFileHashes(disk)
    /\ last' = [op |-> "new_scanner"]
    /\ UNCHANGED <<em_vars, env_vars, disk, gb_vars, app_vars>>

scan_for_changes(force_rescan, max_depth) ==
    LET o == ScanOutcome(force_rescan, max_depth, scan_file_hashes)
    IN /\ scan_file_hashes' = o.hashes
       /\ disk' = [disk EXCEPT ![ScannerHashFile] = Saved(o.hashes)]
       /\ last' = [op |-> "scan", force_rescan |-> force_rescan,
                   max_depth |-> max_depth,
                   changed_files |-> o.changed_files,
                   stored |-> scan_file_hashes,
                   repeated |-> /\ last.op = "scan"
                                /\ last.force_rescan = force_rescan
                                /\ last.max_depth = max_depth]
       /\ UNCHANGED <<em_vars, env_vars, gb_vars, app_vars>>

Scan ==
    \E force_rescan \in BOOLEAN, max_depth \in MaxDepths :
        scan_for_changes(force_rescan, max_depth)

\* the environment: a file is written or deleted
WriteFile ==
    \E p \in EditedFiles : \E c \in Contents(p) \cup {NoFile} :
        /\ fs[p] # c
        /\ fs' = [fs EXCEPT ![p] = c]
        /\ last' = [op |-> "edit"]
        /\ UNCHANGED <<em_vars, unreadable, unlistable, disk, scan_file_hashes,
                       gb_vars, app_vars>>

\* the environment: the permissions of a file or a directory change
Chmod ==
    /\ \E f \in SUBSET ProtectableFiles, d \in SUBSET ProtectableDirs :
          /\ <<f, d>> # <<unreadable, unlistable>>
          /\ unreadable' = f
          /\ unlistable' = d
    /\ last' = [op |-> "edit"]
    /\ UNCHANGED <<em_vars, fs, disk, scan_file_hashes, gb_vars, app_vars>>

ScanNext == Scan \/ NewScanner \/ WriteFile \/ Chmod

(***************************************************************************)
(* Dependency Graph Builder  (src/app/dependency_graph_builder.py)         *)
(***************************************************************************)
MaxCalledBy == 2

\* f"{rel_path}::{func}", line 160
NodeKey(rel_path, func) == <<rel_path, func>>

\* the order in which self.graph.items() yields the nodes (the insertion
\* order of the dict, here fixed)
KeyOrder ==
    <<NodeKey("a.py", "helper"), NodeKey("sub/b.py", "main"),
      NodeKey("venv/v.py", "vendored")>>

\* the hash stored for a file that cannot be read, line 209
ErrorHash == <<"error", NoFile>>

\* lines 44-48: os.walk visits every directory it can list, hidden and
\* virtual-environment directories included
AllPythonFiles ==
    {p \in Files :
        /\ Exists(p)
        /\ \A i \in DOMAIN Entries(p).dirs : Entries(p).dirs[i] \notin unlistable
        /\ Entries(p).ext = ".py"
        /\ ~StartsWithTestPrefix(Entries(p).name)}

\* _file_changed, lines 98-111
FileChanged(p, hashes, d) ==
    \/ p \in unreadable
    \/ ~d[BuilderHashFile].exists
    \/ p \notin DOMAIN hashes
    \/ hashes[p] # Sha256(fs[p])

\* _update_file_hash, lines 195-209
UpdatedFileHash(p) == IF p \in unreadable THEN ErrorHash ELSE Sha256(fs[p])

\* _process_file, lines 136-165: the nodes a file yields, one for each
\* top-level definition that makes at least one call
NodesOfFile(p) ==
    IF p \in unreadable THEN {}
    ELSE {[file |-> p, name |-> d.name, calls |-> d.calls, called_by |-> <<>>] :
             d \in {e \in fs[p].defs : e.calls # {}}}

\* lines 57-66: the graph after the changed files are processed again
ProcessedGraph(g, changed) ==
    LET new == UNION {NodesOfFile(p) : p \in changed}
        keyOf(n) == NodeKey(n.file, n.name)
    IN [k \in DOMAIN g \cup {keyOf(n) : n \in new} |->
           IF \E n \in new : keyOf(n) = k
           THEN CHOOSE n \in new : keyOf(n) = k
           ELSE g[k]]

RECURSIVE CallersOf(_, _, _)
\* lines 72-76: the names appended to the called_by of the nodes named name
CallersOf(g, name, i) ==
    IF i > Len(KeyOrder) THEN <<>>
    ELSE (IF KeyOrder[i] \in DOMAIN g /\ name \in g[KeyOrder[i]].calls
          THEN <<g[KeyOrder[i]].name>> ELSE <<>>)
         \o CallersOf(g, name, i + 1)

\* Step 3, lines 70-76
ReverseRelations(g) ==
    [k \in DOMAIN g |->
        [g[k] EXCEPT !.called_by = @ \o CallersOf(g, g[k].name, 1)]]

\* build_graph as a function of the state before the call
BuildOutcome(g, hashes, d) ==
    LET py == AllPythonFiles
        changed == {p \in py : FileChanged(p, hashes, d)}
        hashes1 == [p \in DOMAIN hashes \cup changed |->
                       IF p \in changed THEN UpdatedFileHash(p) ELSE hashes[p]]
        g1 == ReverseRelations(ProcessedGraph(g, changed))
    IN IF py = {}
       THEN [graph |-> g, hashes |-> hashes, changed_files |-> {},
             disk |-> d]
       ELSE [graph |-> g1, hashes |-> hashes1, changed_files |-> changed,
             disk |-> [d EXCEPT ![GraphFile] = Saved(g1),
                                ![BuilderHashFile] = Saved(hashes1)]]

\* load_hashes, lines 229-232, on a Builder whose map is cur
LoadHashes(d, cur) ==
    IF d[BuilderHashFile].exists THEN d[BuilderHashFile].data ELSE cur

\* __init__, lines 14-21
GbInit ==
    /\ graph = EmptyDict
    /\ gb_file_hashes = EmptyDict
    /\ gb_changed_files = {}

build_graph ==
    LET o == BuildOutcome(graph, gb_file_hashes, disk)
    IN /\ \A k \in DOMAIN o.graph : Len(o.graph[k].called_by) <= MaxCalledBy
       /\ graph' = o.graph
       /\ gb_file_hashes' = o.hashes
       /\ gb_changed_files' = o.changed_files
       /\ disk' = o.disk
       /\ last' = [op |-> "build_graph"]
       /\ UNCHANGED <<em_vars, env_vars, scan_file_hashes, app_vars>>

\* sync_directory's scan of the directory (rag_manager.py line 148)
ScanDefault == scan_for_changes(FALSE, NoDepthLimit)

\* a new session: RAGManager.__init__ (rag_manager.py lines 55-76) makes a
\* new Builder, loads its hashes and makes a new Scanner; the Embedding
\* Manager reloads what its last call persisted
NewSession ==
    /\ graph' = EmptyDict
    /\ gb_file_hashes' = LoadHashes(disk, EmptyDict)
    /\ gb_changed_files' = {}
    /\ scan_file_hashes' = LoadFileHashes(disk)
    /\ last' = [op |-> "new_session"]
    /\ UNCHANGED <<em_vars, env_vars, disk, app_vars>>

GraphNext == build_graph \/ ScanDefault \/ NewSession \/ WriteFile

\* RAGManager.__init__ (rag_manager.py lines 32-94) with auto_sync=False, and
\* an HTTP API without a secret that has served no request
MinSyncInterval == 30

DefaultSyncInterval == 300

NoThread == "none"

NoTree == [cached |-> FALSE, files |-> {}]

Tree(files) == [cached |-> TRUE, files |-> files]

NoKey == ""

NoRequest == [endpoint |-> "none"]

\* what the operations of the Orchestrator on the index leave alone
ctl_vars == <<auto_sync, sync_interval, sync_thread, API_KEY, response,
              background_tasks, ext_vars>>

\* the threads that call into one Orchestrator: its loop thread and the
\* thread serving a request
Callers == {"loop", "request"}

\* two threads that call start_auto_sync on it
Starters == {"caller1", "caller2"}

NoCall ==
    [pc |-> "idle", order |-> <<>>, i |-> 1, changed_chunks |-> <<>>,
     keep |-> {}, metadata_to_keep |-> <<>>, new_index |-> <<>>,
     proc |-> <<>>, upd |-> <<>>, j |-> 1, status |-> "idle",
     trace |-> <<>>]

\* no call in progress
RunIdle ==
    /\ calls = [t \in Callers |-> NoCall]
    /\ starters = [c \in Starters |-> "idle"]
    /\ stray_threads = <<>>
    /\ replaced = <<>>

\* ProcessManager.__init__ (agent_controller.py lines 46-48) and a file
\* watch handler made at time 0 (local_scan_manager.py lines 28-32)
ExtIdle ==
    /\ processes = EmptyDict
    /\ process_counter = 0
    /\ platform = "linux"
    /\ handler_changed_files = {}
    /\ last_processed_time = 0
    /\ now = 0
    /\ RunIdle

OrchIdle ==
    /\ history_last = EmptyDict
    /\ auto_sync = FALSE
    /\ sync_interval = DefaultSyncInterval
    /\ sync_thread = NoThread
    /\ file_tree_cache = NoTree
    /\ API_KEY = NoKey
    /\ response = NoRequest
    /\ background_tasks = {}
    /\ ExtIdle

\* directory, Scanner and Builder at rest, for the other specifications
RestIdle == EnvInit /\ ScanInit /\ GbInit /\ OrchIdle

(***************************************************************************)
(* Embedding & Vector Index Manager  (src/app/embedding_manager.py)        *)
(***************************************************************************)
MaxInput == 2        \* longest chunk list handed to one upsert_chunks call
MaxMeta == 2         \* longest metadata list explored
DefaultBatchSize == 32

EmPaths == {"a.py", "b.py"}
EmKeys == {<<"a.py", "f">>, <<"b.py", "g">>}
EmCodes == {"c1", "c2"}
EmChunks == {[path |-> k[1], name |-> k[2], code |-> c] :
                 k \in EmKeys, c \in EmCodes}
BatchSizes == {DefaultBatchSize}

get_chunk_key(chunk) == <<chunk.path, chunk.name>>

compute_hash(chunk) == <<chunk.path, chunk.name, chunk.code>>

\* model.encode([text])[0]
Encode(text) == <<"vec", text>>

\* lines 178-182: the first metadata position holding the key, 0 for None
ExistingIndex(meta, key) ==
    LET hits == {i \in DOMAIN meta : get_chunk_key(meta[i]) = key}
    IN IF hits = {} THEN 0 ELSE CHOOSE i \in hits : \A j \in hits : i <= j

\* lines 170-201, one iteration of the analysis loop.  acc.cls is not in the
\* code: it records, parallel to chunks_to_process, the metadata position
\* the analysis found for the chunk (0 when it classified the chunk as new).
AnalyseChunk(acc, chunk, meta) ==
    LET key == get_chunk_key(chunk)
        h == compute_hash(chunk)
        existing == ExistingIndex(meta, key)
    IN IF key \in DOMAIN acc.hashes
       THEN IF existing # 0
            THEN IF acc.hashes[key] # h
                 THEN [acc EXCEPT !.proc = Append(@, chunk),
                                  !.upd = Append(@, existing),
                                  !.cls = Append(@, existing),
                                  !.hashes = DictSet(@, key, h)]
                 ELSE [acc EXCEPT !.unchanged = @ + 1]
            ELSE [acc EXCEPT !.proc = Append(@, chunk),
                             !.cls = Append(@, 0),
                             !.hashes = DictSet(@, key, h)]
       ELSE [acc EXCEPT !.proc = Append(@, chunk),
                        !.cls = Append(@, 0),
                        !.hashes = DictSet(@, key, h)]

RECURSIVE AnalyseFrom(_, _, _, _)
AnalyseFrom(acc, chunks, i, meta) ==
    IF i > Len(chunks) THEN acc
    ELSE AnalyseFrom(AnalyseChunk(acc, chunks[i], meta), chunks, i + 1, meta)

Analyse(chunks, meta, hashes) ==
    AnalyseFrom([proc |-> <<>>, upd |-> <<>>, cls |-> <<>>, unchanged |-> 0,
                 hashes |-> hashes], chunks, 1, meta)

\* lines 211, 216-219: the 0-based batch number of the j-th (1-based)
\* scheduled chunk
BatchOf(j, batch_size) == (j - 1) \div batch_size

TotalBatches(n, batch_size) == (n + batch_size - 1) \div batch_size

\* ApplyChunk with the update branch also adding the chunk's vector (the
\* "treat it as a new addition" of the comment at line 249 taken literally)
ApplyChunk_AddsVectorOnUpdate(st, chunk, j, upd) ==
    IF j - 1 < Len(upd)
    THEN [st EXCEPT !.meta[upd[j]] = chunk, !.updates = @ + 1,
                    !.idx = Append(@, Encode(chunk.code))]
    ELSE [st EXCEPT !.idx = Append(@, Encode(chunk.code)),
                    !.meta = Append(@, chunk),
                    !.additions = @ + 1]

\* lines 239-259, one scheduled chunk of a batch whose embedding succeeded.
\* chunk_idx = j - 1 is the chunk's 0-based place in chunks_to_process.
ApplyChunk(st, chunk, j, upd) ==
    IF j - 1 < Len(upd)
    THEN [st EXCEPT !.meta[upd[j]] = chunk, !.updates = @ + 1]
    ELSE [st EXCEPT !.idx = Append(@, Encode(chunk.code)),
                    !.meta = Append(@, chunk),
                    !.additions = @ + 1]

\* lines 216-261: all batches; a batch in failed raises in model.encode and
\* is skipped (line 233) before total_processed is advanced (line 261).
RECURSIVE ProcessFrom(_, _, _, _, _, _)
ProcessFrom(st, proc, upd, j, batch_size, failed) ==
    IF j > Len(proc) THEN st
    ELSE IF BatchOf(j, batch_size) \in failed
         THEN ProcessFrom(st, proc, upd, j + 1, batch_size, failed)
         ELSE ProcessFrom([ApplyChunk(st, proc[j], j, upd)
                               EXCEPT !.total_processed = @ + 1],
                          proc, upd, j + 1, batch_size, failed)

\* upsert_chunks as a function of the state before the call
UpsertOutcome(chunks, batch_size, failed, meta, idx, hashes) ==
    LET a == Analyse(chunks, meta, hashes)
        st0 == [meta |-> meta, idx |-> idx, updates |-> 0, additions |-> 0,
                total_processed |-> 0]
        st == ProcessFrom(st0, a.proc, a.upd, 1, batch_size, failed)
    IN IF chunks = <<>>
       THEN [meta |-> meta, idx |-> idx, hashes |-> hashes,
             proc |-> <<>>, cls |-> <<>>, additions |-> 0, updates |-> 0,
             result |-> [added |-> 0, updated |-> 0, unchanged |-> 0]]
       ELSE IF a.proc = <<>>
       THEN [meta |-> meta, idx |-> idx, hashes |-> a.hashes,
             proc |-> <<>>, cls |-> <<>>, additions |-> 0, updates |-> 0,
             result |-> [added |-> 0, updated |-> 0,
                         unchanged |-> a.unchanged]]
       ELSE [meta |-> st.meta, idx |-> st.idx, hashes |-> a.hashes,
             proc |-> a.proc, cls |-> a.cls,
             additions |-> st.additions, updates |-> st.updates,
             result |-> [added |-> st.total_processed - Len(a.upd),
                         updated |-> Len(a.upd),
                         unchanged |-> a.unchanged]]

\* lines 416-436: the positions kept, in order
KeptPositions(meta, file_paths) ==
    {i \in DOMAIN meta : meta[i].path \notin file_paths}

RECURSIVE SelectFrom_Reversed(_, _, _)
\* the kept positions copied from the last to the first
SelectFrom_Reversed(s, keep, i) ==
    IF i > Len(s) THEN <<>>
    ELSE IF i \in keep THEN SelectFrom_Reversed(s, keep, i + 1) \o <<s[i]>>
         ELSE SelectFrom_Reversed(s, keep, i + 1)

RECURSIVE SelectFrom(_, _, _)
\* lines 423-436 and 470-474: the kept positions copied in increasing order
SelectFrom(s, keep, i) ==
    IF i > Len(s) THEN <<>>
    ELSE IF i \in keep THEN <<s[i]>> \o SelectFrom(s, keep, i + 1)
         ELSE SelectFrom(s, keep, i + 1)

\* remove_chunks with line 478 (self.metadata = metadata_to_keep) left out
RemoveOutcome_KeepsMetadata(file_paths, meta, idx, hashes) ==
    LET keep == KeptPositions(meta, file_paths)
        gone == DOMAIN meta \ keep
    IN IF file_paths = {} \/ gone = {}
       THEN [meta |-> meta, idx |-> idx, hashes |-> hashes, removed |-> 0,
             raised |-> FALSE]
       ELSE [meta |-> meta,
             idx |-> SelectFrom(idx, keep \cap DOMAIN idx, 1),
             hashes |-> DictDel(hashes, {get_chunk_key(meta[i]) : i \in gone}),
             removed |-> Cardinality(gone), raised |-> FALSE]

\* remove_chunks as a function of the state before the call.  The hash
\* entries are deleted in the first loop (line 431); copying a kept position
\* the index does not hold raises in index.reconstruct (line 473), before
\* index and metadata are replaced (lines 477-478).
RemoveOutcome(file_paths, meta, idx, hashes) ==
    LET keep == KeptPositions(meta, file_paths)
        gone == DOMAIN meta \ keep
        removed == Cardinality(gone)
        hashes2 == DictDel(hashes, {get_chunk_key(meta[i]) : i \in gone})
    IN IF file_paths = {} \/ removed = 0
       THEN [meta |-> meta, idx |-> idx, hashes |-> hashes, removed |-> 0,
             raised |-> FALSE]
       ELSE IF ~(keep \subseteq DOMAIN idx)
       THEN [meta |-> meta, idx |-> idx, hashes |-> hashes2, removed |-> 0,
             raised |-> TRUE]
       ELSE [meta |-> SelectFrom(meta, keep, 1),
             idx |-> SelectFrom(idx, keep, 1),
             hashes |-> hashes2, removed |-> removed, raised |-> FALSE]

\* query, lines 315-351: the metadata a query can return.  The ranking of
\* the index is opaque, so any top_k positions of the index may be the hits;
\* a hit at a position past the metadata list is dropped (line 340).
QueryHits(top_k, meta, idx) ==
    IF Len(idx) = 0 THEN {{}}
    ELSE {hits \in SUBSET (1..Len(idx)) :
            Cardinality(hits) = Min(top_k, Len(idx))}

QueryResults(top_k, meta, idx) ==
    {{meta[i] : i \in hits \cap DOMAIN meta} : hits \in QueryHits(top_k, meta, idx)}

EmNoCall == [op |-> "none"]

EmInit(trace) ==
    /\ em_trace = trace
    /\ metadata = <<>>
    /\ index = <<>>
    /\ chunk_hashes = EmptyDict
    /\ em_last = EmNoCall

upsert_chunks(chunks, batch_size, failed) ==
    LET o == UpsertOutcome(chunks, batch_size, failed, metadata, index,
                           chunk_hashes)
    IN /\ Len(o.meta) <= MaxMeta
       /\ metadata' = o.meta
       /\ index' = o.idx
       /\ chunk_hashes' = o.hashes
       /\ em_last' = IF em_trace
                      THEN [op |-> "upsert", chunks |-> chunks,
                            failed |-> failed, proc |-> o.proc,
                            cls |-> o.cls, result |-> o.result,
                            additions |-> o.additions,
                            updates |-> o.updates,
                            pre_len |-> Len(metadata)]
                      ELSE [op |-> "upsert"]
       /\ UNCHANGED <<em_trace, env_vars, disk, scan_file_hashes, gb_vars, app_vars, last>>

remove_chunks(file_paths) ==
    LET o == RemoveOutcome(file_paths, metadata, index, chunk_hashes)
    IN /\ metadata' = o.meta
       /\ index' = o.idx
       /\ chunk_hashes' = o.hashes
       /\ em_last' = [op |-> "remove", paths |-> file_paths,
                      removed |-> o.removed, raised |-> o.raised]
       /\ UNCHANGED <<em_trace, env_vars, disk, scan_file_hashes, gb_vars, app_vars, last>>

Upsert ==
    \E chunks \in SeqsUpTo(EmChunks, MaxInput) :
    \E batch_size \in BatchSizes :
    \E failed \in SUBSET (0..(TotalBatches(Len(chunks), batch_size) - 1)) :
        upsert_chunks(chunks, batch_size, failed)

Remove ==
    \E file_paths \in SUBSET EmPaths : remove_chunks(file_paths)

EmNext == Upsert \/ Remove

InitEmbed == EmInit(FALSE) /\ RestIdle

\* the Embedding Manager alone, from a new empty index
SpecEmbed == InitEmbed /\ [][EmNext]_vars

InitEmbedTrace == EmInit(TRUE) /\ RestIdle

\* the same, with every call's chunk lists recorded in em_last
SpecEmbedTrace == InitEmbedTrace /\ [][EmNext]_vars

InitScan == RestIdle /\ EmInit(FALSE)

\* the Scanner alone over a directory that is edited between scans
SpecScan == InitScan /\ [][ScanNext]_vars

InitGraph == RestIdle /\ EmInit(FALSE)

\* the Builder and the Scanner of successive sessions over a directory that
\* is edited
SpecGraph == InitGraph /\ [][GraphNext]_vars

(***************************************************************************)
(* RAG Orchestrator: incremental sync  (src/app/rag_manager.py)            *)
(***************************************************************************)
PathExists(abs_path) == abs_path[1] = LocalPath /\ Exists(abs_path[2])

\* the orders in which a Python set can be iterated
IterationOrders(S) ==
    {o \in [1..Cardinality(S) -> S] :
        \A i, j \in DOMAIN o : i # j => o[i] # o[j]}

RECURSIVE SeqOfDefs(_)
\* the definitions of a source in the order of the text (here fixed)
SeqOfDefs(defs) ==
    IF defs = {} THEN <<>>
    ELSE LET d == CHOOSE e \in defs : TRUE
         IN <<d>> \o SeqOfDefs(defs \ {d})

\* Preprocessor.extract_chunks on a Python file (preprocessor.py lines
\* 187-302): the whole-file chunk, then one chunk for each top-level function
ExtractChunks(abs_path) ==
    LET rel_path == get_relative_path(abs_path)
        defs == SeqOfDefs(fs[rel_path].defs)
    IN IF ~PathExists(abs_path) \/ rel_path \in unreadable THEN <<>>
       ELSE <<[path |-> rel_path, name |-> rel_path,
               code |-> <<"file", fs[rel_path].defs>>]>>
            \o [i \in DOMAIN defs |->
                  [path |-> rel_path, name |-> defs[i].name,
                   code |-> <<"def", {defs[i]}>>]]

\* lines 700-712: the files of the loop that are read and chunked
Processable(abs_path) ==
    /\ PathExists(abs_path)
    /\ Entries(get_relative_path(abs_path)).ext \in TrackExtensions
    /\ get_relative_path(abs_path) \notin unreadable

RECURSIVE ChangedChunks(_, _)
\* lines 696-717: changed_chunks, the files taken in the order given
ChangedChunks(order, i) ==
    IF i > Len(order) THEN <<>>
    ELSE (IF Processable(order[i]) THEN ExtractChunks(order[i]) ELSE <<>>)
         \o ChangedChunks(order, i + 1)

\* lines 709-710: the newest snapshot of every file that was read
TrackChanges(changed_files) ==
    LET tracked == {get_relative_path(a) :
                       a \in {x \in changed_files : Processable(x)}}
    IN [p \in DOMAIN history_last \cup tracked |->
           IF p \in tracked THEN fs[p] ELSE history_last[p]]

\* process_changed_files, lines 667-731: the graph is rebuilt (b), the
\* chunks of the changed files that exist are removed (r), and the chunks
\* extracted from the changed files are upserted (u).  A remove_chunks that
\* raises ends the call.
ProcessChangedFiles(order, failed, d, caller) ==
    LET changed_files == Range(order)
        relative_changed_paths ==
            {get_relative_path(a) : a \in {x \in changed_files : PathExists(x)}}
    IN \E b \in {BuildOutcome(graph, gb_file_hashes, d)} :
       \E r \in {RemoveOutcome(relative_changed_paths, metadata, index,
                                chunk_hashes)} :
       \E changed_chunks \in {ChangedChunks(order, 1)} :
       \E u \in {UpsertOutcome(changed_chunks, DefaultBatchSize, failed,
                                r.meta, r.idx, r.hashes)} :
          /\ \A k \in DOMAIN b.graph : Len(b.graph[k].called_by) <= MaxCalledBy
          /\ graph' = b.graph
          /\ gb_file_hashes' = b.hashes
          /\ gb_changed_files' = b.changed_files
          /\ disk' = b.disk
          /\ metadata' = IF r.raised THEN metadata ELSE u.meta
          /\ index' = IF r.raised THEN index ELSE u.idx
          /\ chunk_hashes' = IF r.raised THEN r.hashes ELSE u.hashes
          /\ em_last' = IF ~r.raised /\ changed_chunks # <<>>
                        THEN [op |-> "upsert"]
                        ELSE IF relative_changed_paths # {}
                        THEN [op |-> "remove", paths |-> relative_changed_paths,
                              removed |-> r.removed, raised |-> r.raised]
                        ELSE em_last
          /\ history_last' = IF r.raised THEN history_last
                             ELSE TrackChanges(changed_files)
          /\ file_tree_cache' =
                 IF caller = "sync_directory" /\ ~r.raised THEN NoTree
                 ELSE file_tree_cache
          /\ last' = [op |-> "sync", caller |-> caller,
                      changed_files |->
                          {get_relative_path(a) : a \in changed_files},
                      status |-> IF r.raised THEN "error" ELSE "success"]

\* sync_directory (lines 129-190) and update_context_on_change (lines
\* 825-872): scan, then process what the scan reported.  The set of changed
\* files is iterated in some order, and the embedding of the one batch of
\* chunks succeeds or fails.  Only sync_directory resets the file-tree cache
\* (line 158), and only when process_changed_files returned.
SyncWith(force_rescan, caller) ==
    \E s \in {ScanOutcome(force_rescan, NoDepthLimit, scan_file_hashes)} :
    LET d == [disk EXCEPT ![ScannerHashFile] = Saved(s.hashes)]
        abs_changed_files == {get_full_path(p) : p \in s.changed_files}
    IN /\ scan_file_hashes' = s.hashes
       /\ IF s.changed_files = {}
          THEN /\ disk' = d
               /\ last' = [op |-> "sync", caller |-> caller,
                           changed_files |-> {}, status |-> "success"]
               /\ UNCHANGED <<metadata, index, chunk_hashes, em_last,
                              gb_vars, history_last, file_tree_cache>>
          ELSE \E order \in IterationOrders(abs_changed_files) :
               \E failed \in SUBSET (0..(TotalBatches(
                     Len(ChangedChunks(order, 1)), DefaultBatchSize) - 1)) :
                   ProcessChangedFiles(order, failed, d, caller)
       /\ UNCHANGED <<em_trace, env_vars>>

sync_directory ==
    /\ \E force_rescan \in BOOLEAN :
          SyncWith(force_rescan, "sync_directory")
    /\ UNCHANGED ctl_vars

update_context_on_change ==
    SyncWith(FALSE, "update_context_on_change") /\ UNCHANGED ctl_vars

SyncNext == sync_directory \/ update_context_on_change \/ WriteFile

InitSync == RestIdle /\ EmInit(FALSE)

\* the syncs of one session of the Orchestrator, the directory edited in
\* between
SpecSync == InitSync /\ [][SyncNext]_vars

(***************************************************************************)
(* RAG Orchestrator: full build, watcher callback and file tree            *)
(***************************************************************************)
\* Preprocessor.skip_dirs and supported_extensions (preprocessor.py lines
\* 42-69)
PreprocessorSkipDirs ==
    {"venv", "__pycache__", "node_modules", ".git", ".idea", ".vscode",
     "build", "dist", ".pytest_cache", ".mypy_cache", ".egg-info"}

SupportedExtensions ==
    {".py", ".js", ".ts", ".tsx", ".jsx", ".json", ".md", ".html", ".css",
     ".scss", ".less", ".txt", ".yaml", ".yml", ".xml", ".csv", ".sql", "",
     "."}

\* the order in which os.walk meets the files: a directory's files before
\* its subdirectories
WalkOrder == <<"a.py", "n.bin", "test_a.py", "sub/b.py", "venv/v.py">>

\* Preprocessor.scan_files, preprocessor.py lines 73-120
ScanFiles ==
    LET Kept(p) ==
            /\ Exists(p)
            /\ \A i \in DOMAIN Entries(p).dirs :
                  /\ ~StartsWithDot(Entries(p).dirs[i])
                  /\ Entries(p).dirs[i] \notin PreprocessorSkipDirs
                  /\ Entries(p).dirs[i] \notin unlistable
            /\ ~StartsWithTestPrefix(Entries(p).name)
            /\ Entries(p).ext \in SupportedExtensions
    IN SelectSeq(WalkOrder, Kept)

RECURSIVE ProcessChunks(_, _)
\* Preprocessor.process, preprocessor.py lines 360-408
ProcessChunks(files, i) ==
    IF i > Len(files) THEN <<>>
    ELSE ExtractChunks(get_full_path(files[i])) \o ProcessChunks(files, i + 1)

\* build_index, lines 775-823: every chunk of the directory is upserted,
\* the graph is rebuilt and the file-tree cache is reset
BuildIndex ==
    \E chunks \in {ProcessChunks(ScanFiles, 1)} :
    \E failed \in SUBSET (0..(TotalBatches(Len(chunks), DefaultBatchSize) - 1)) :
    \E u \in {UpsertOutcome(chunks, DefaultBatchSize, failed, metadata, index,
                             chunk_hashes)} :
    \E b \in {BuildOutcome(graph, gb_file_hashes, disk)} :
       /\ \A k \in DOMAIN b.graph : Len(b.graph[k].called_by) <= MaxCalledBy
       /\ metadata' = u.meta
       /\ index' = u.idx
       /\ chunk_hashes' = u.hashes
       /\ em_last' = IF chunks # <<>> THEN [op |-> "upsert"] ELSE em_last
       /\ graph' = b.graph
       /\ gb_file_hashes' = b.hashes
       /\ gb_changed_files' = b.changed_files
       /\ disk' = b.disk
       /\ file_tree_cache' = NoTree
       /\ last' = [op |-> "build_index", status |-> "success",
                   chunks_processed |-> Len(chunks)]
       /\ UNCHANGED <<em_trace, env_vars, scan_file_hashes, history_last>>

build_index == BuildIndex /\ UNCHANGED ctl_vars

\* the sets of paths a file watch can hand to the callback
WatchedChanges == SUBSET {get_full_path(p) : p \in EditedFiles}

\* handle_file_changes, lines 655-665: process_changed_files on the paths
\* of the watcher, which returns at once on an empty set (lines 675-676)
handle_file_changes(changed_files) ==
    /\ IF changed_files = {}
       THEN /\ last' = [op |-> "sync", caller |-> "handle_file_changes",
                        changed_files |-> {}, status |-> "success"]
            /\ UNCHANGED <<metadata, index, chunk_hashes, em_last, gb_vars,
                           disk, history_last, file_tree_cache>>
       ELSE \E order \in IterationOrders(changed_files) :
            \E failed \in SUBSET (0..(TotalBatches(
                  Len(ChangedChunks(order, 1)), DefaultBatchSize) - 1)) :
                ProcessChangedFiles(order, failed, disk, "handle_file_changes")
    /\ UNCHANGED <<em_trace, env_vars, scan_file_hashes>>
    /\ UNCHANGED ctl_vars

HandleFileChanges ==
    \E changed_files \in WatchedChanges : handle_file_changes(changed_files)

\* lines 438-497: build_tree lists what is neither hidden nor in the
\* Scanner's skip_dirs, each file with its size and modification time
BuiltTree ==
    Tree({<<p, fs[p]>> :
            p \in {q \in Files :
                     /\ Exists(q)
                     /\ ~SkippedEntry(Entries(q).name)
                     /\ \A i \in DOMAIN Entries(q).dirs :
                           /\ ~SkippedEntry(Entries(q).dirs[i])
                           /\ Entries(q).dirs[i] \notin unlistable}})

\* the depth argument: 0 (unlimited, the default) or 1
TreeDepths == {0, 1}

\* get_file_structure(force_refresh, depth) for the whole directory, lines
\* 380-534: the cached tree is served only at depth 1 (line 395); any other
\* call builds the tree and caches it (line 512)
GetFileStructure(force_refresh, depth) ==
    LET from_cache == file_tree_cache.cached /\ ~force_refresh /\ depth = 1
    IN /\ file_tree_cache' = IF from_cache THEN file_tree_cache ELSE BuiltTree
       /\ last' = [op |-> "get_file_structure", from_cache |-> from_cache,
                   tree |-> IF from_cache THEN file_tree_cache ELSE BuiltTree,
                   current |-> BuiltTree]
       /\ UNCHANGED <<em_vars, env_vars, disk, scan_file_hashes, gb_vars,
                      history_last>>

get_file_structure ==
    /\ \E force_refresh \in BOOLEAN : \E depth \in TreeDepths :
          GetFileStructure(force_refresh, depth)
    /\ UNCHANGED ctl_vars

TreeNext ==
    \/ sync_directory
    \/ update_context_on_change
    \/ HandleFileChanges
    \/ build_index
    \/ get_file_structure

InitTree == RestIdle /\ EmInit(FALSE)

\* the operations of one Orchestrator that mutate the index, and the file
\* tree asked for in between
SpecTree == InitTree /\ [][TreeNext]_vars

(***************************************************************************)
(* RAG Orchestrator: automatic synchronisation  (src/app/rag_manager.py)   *)
(***************************************************************************)
\* the loop thread: about to test "while self.auto_sync" ("test"), in the
\* body before its sync_directory returned ("cycle"), in time.sleep
\* ("sleep"), past the while with the marker found clear but not yet
\* returned from sync_task ("exiting"), or terminated ("dead")
ThreadStates == {"test", "cycle", "sleep", "exiting", "dead"}

\* Thread.is_alive(): true until the thread's function has returned
is_alive(thread) == thread \in {"test", "cycle", "sleep", "exiting"}

\* start_auto_sync, lines 96-118: a new thread unless one is alive
StartedThread(thread) == IF is_alive(thread) THEN thread ELSE "test"

\* a stop that forgets the marker
StoppedFlag_KeepsFlag(flag, thread) == flag

\* stop_auto_sync, lines 120-127: the marker is set when a thread was ever
\* started
StoppedFlag(flag, thread) == IF thread # NoThread THEN FALSE ELSE flag

start_auto_sync ==
    /\ sync_thread' = StartedThread(sync_thread)
    /\ UNCHANGED auto_sync

stop_auto_sync ==
    /\ auto_sync' = StoppedFlag(auto_sync, sync_thread)
    /\ UNCHANGED sync_thread

\* line 105: the loop tests the marker
LoopTest ==
    /\ sync_thread = "test"
    /\ sync_thread' = IF auto_sync THEN "cycle" ELSE "exiting"
    /\ UNCHANGED <<em_vars, env_vars, disk, scan_file_hashes, gb_vars,
                   history_last, auto_sync, sync_interval, file_tree_cache,
                   API_KEY, response, background_tasks, last, ext_vars>>

\* lines 106-112: one sync_directory(), its exceptions caught
LoopCycle ==
    /\ sync_thread = "cycle"
    /\ SyncWith(FALSE, "sync_directory")
    /\ sync_thread' = "sleep"
    /\ UNCHANGED <<auto_sync, sync_interval, API_KEY, response,
                   background_tasks, ext_vars>>

\* line 114: time.sleep(self.sync_interval) returns; a negative interval
\* raises ValueError outside the try and ends the thread
LoopSleep ==
    /\ sync_thread = "sleep"
    /\ sync_thread' = IF sync_interval < 0 THEN "dead" ELSE "test"
    /\ UNCHANGED <<em_vars, env_vars, disk, scan_file_hashes, gb_vars,
                   history_last, auto_sync, sync_interval, file_tree_cache,
                   API_KEY, response, background_tasks, last, ext_vars>>

\* sync_task returns and the thread ends
LoopExit ==
    /\ sync_thread = "exiting"
    /\ sync_thread' = "dead"
    /\ UNCHANGED <<em_vars, env_vars, disk, scan_file_hashes, gb_vars,
                   history_last, auto_sync, sync_interval, file_tree_cache,
                   API_KEY, response, background_tasks, last, ext_vars>>

sync_task == LoopTest \/ LoopCycle \/ LoopSleep \/ LoopExit

\* the loop thread is a started thread of the process: it is scheduled, its
\* sync_directory returns (every exception is caught, lines 170-178) and its
\* sleep ends
AutoSyncFairness ==
    /\ WF_vars(LoopTest) /\ WF_vars(LoopCycle) /\ WF_vars(LoopSleep)
    /\ WF_vars(LoopExit)

(***************************************************************************)
(* HTTP API Server  (src/main.py)                                          *)
(***************************************************************************)
Max(a, b) == IF a > b THEN a ELSE b

\* a request without the X-API-Key header (Header(None))
NoHeader == "<no header>"

Secret == "secret"

Headers == {NoHeader, Secret, "wrong"}

\* a gate that lets every request pass
verify_api_key_AcceptsAll(x_api_key) == TRUE

\* lines 101-104
verify_api_key(x_api_key) ==
    ~(API_KEY # "" /\ (x_api_key \in {NoHeader, ""} \/ x_api_key # API_KEY))

\* the interval query parameter: absent (None) or an integer
NoInterval == [given |-> FALSE, value |-> 0]

Interval(n) == [given |-> TRUE, value |-> n]

Intervals ==
    {NoInterval} \cup {Interval(n) : n \in {MinSyncInterval - 1,
                           MinSyncInterval, MinSyncInterval + 1}}

\* an interval that is taken as requested
ClampInterval_Unclamped(interval) == interval

\* lines 272, 285 and 296: max(30, interval)
ClampInterval(interval) == Max(MinSyncInterval, interval)

\* the 401 of verify_api_key: the handler does not run
Unauthorized(endpoint, x_api_key) ==
    /\ response' = [endpoint |-> endpoint, x_api_key |-> x_api_key,
                    status |-> 401, operation |-> "none"]
    /\ UNCHANGED <<em_vars, env_vars, disk, scan_file_hashes, gb_vars,
                   history_last, auto_sync, sync_interval, sync_thread,
                   file_tree_cache, API_KEY, background_tasks, last, ext_vars>>

\* a handler that only ever changes the interval
SetAutoSyncOutcome_IntervalOnly(enabled, interval, flag, seconds, thread) ==
    [branch |-> "interval", auto_sync |-> flag,
     sync_interval |-> IF interval.given THEN ClampInterval(interval.value)
                       ELSE seconds,
     sync_thread |-> thread]

\* POST /auto_sync, lines 259-312, as a function of the Orchestrator's
\* auto_sync, sync_interval and sync_thread before the request
SetAutoSyncOutcome(enabled, interval, flag, seconds, thread) ==
    LET new_interval == IF interval.given THEN ClampInterval(interval.value)
                        ELSE seconds
    IN IF enabled /\ ~flag
       THEN [branch |-> "enable", auto_sync |-> TRUE,
             sync_interval |-> new_interval,
             sync_thread |-> StartedThread(thread)]
       ELSE IF ~enabled /\ flag
       THEN [branch |-> "disable", auto_sync |-> FALSE,
             sync_interval |-> new_interval, sync_thread |-> thread]
       ELSE [branch |-> IF interval.given THEN "interval" ELSE "none",
             auto_sync |-> flag, sync_interval |-> new_interval,
             sync_thread |-> thread]

set_auto_sync(x_api_key, enabled, interval) ==
    LET o == SetAutoSyncOutcome(enabled, interval, auto_sync, sync_interval,
                                sync_thread)
    IN /\ auto_sync' = o.auto_sync
       /\ sync_interval' = o.sync_interval
       /\ sync_thread' = o.sync_thread
       /\ response' = [endpoint |-> "POST /auto_sync",
                       x_api_key |-> x_api_key, status |-> 200,
                       operation |-> "set_auto_sync", interval |-> interval,
                       enabled |-> enabled]
       /\ UNCHANGED <<em_vars, env_vars, disk, scan_file_hashes, gb_vars,
                      history_last, file_tree_cache, API_KEY,
                      background_tasks, last, ext_vars>>

PostAutoSync ==
    /\ response # NoRequest
    /\ \E x_api_key \in Headers :
          IF verify_api_key(x_api_key)
          THEN \E enabled \in BOOLEAN : \E interval \in Intervals :
                   set_auto_sync(x_api_key, enabled, interval)
          ELSE Unauthorized("POST /auto_sync", x_api_key)

\* GET /, lines 127-138: no dependency on verify_api_key
read_root ==
    /\ response # NoRequest
    /\ \E x_api_key \in Headers :
          response' = [endpoint |-> "GET /", x_api_key |-> x_api_key,
                       status |-> 200, operation |-> "none",
                       auto_sync |-> auto_sync]
    /\ UNCHANGED <<em_vars, env_vars, disk, scan_file_hashes, gb_vars,
                   history_last, auto_sync, sync_interval, sync_thread,
                   file_tree_cache, API_KEY, background_tasks, last, ext_vars>>

\* GET /auto_sync, lines 247-256
get_auto_sync ==
    /\ response # NoRequest
    /\ \E x_api_key \in Headers :
          IF verify_api_key(x_api_key)
          THEN /\ response' = [endpoint |-> "GET /auto_sync",
                               x_api_key |-> x_api_key, status |-> 200,
                               operation |-> "status",
                               auto_sync |-> auto_sync]
               /\ UNCHANGED <<em_vars, env_vars, disk, scan_file_hashes,
                              gb_vars, history_last, auto_sync,
                              sync_interval, sync_thread, file_tree_cache,
                              API_KEY, background_tasks, last, ext_vars>>
          ELSE Unauthorized("GET /auto_sync", x_api_key)

\* the other endpoints whose Orchestrator operation only reads: POST
\* /retrieve (lines 141-153), POST /file (330-340) and GET /dependencies
\* (343-353)
ReadingEndpoints ==
    {<<"POST /retrieve", "retrieve">>,
     <<"POST /file", "get_file_content">>,
     <<"GET /dependencies", "get_dependency_graph">>}

Answered(endpoint, x_api_key, operation) ==
    response' = [endpoint |-> endpoint, x_api_key |-> x_api_key,
                 status |-> 200, operation |-> operation]

ReadingRequest ==
    /\ response # NoRequest
    /\ \E e \in ReadingEndpoints : \E x_api_key \in Headers :
          IF verify_api_key(x_api_key)
          THEN /\ Answered(e[1], x_api_key, e[2])
               /\ UNCHANGED <<em_vars, env_vars, disk, scan_file_hashes,
                              gb_vars, history_last, auto_sync,
                              sync_interval, sync_thread, file_tree_cache,
                              API_KEY, background_tasks, last, ext_vars>>
          ELSE Unauthorized(e[1], x_api_key)

\* POST /prompt, lines 156-172: update_context_on_change, then build_prompt
\* (which reads only; the prompt text is not part of the response here)
generate_prompt ==
    /\ response # NoRequest
    /\ \E x_api_key \in Headers :
          IF verify_api_key(x_api_key)
          THEN /\ SyncWith(FALSE, "update_context_on_change")
               /\ Answered("POST /prompt", x_api_key,
                           "update_context_on_change")
               /\ UNCHANGED <<auto_sync, sync_interval, sync_thread, API_KEY,
                              background_tasks, ext_vars>>
          ELSE Unauthorized("POST /prompt", x_api_key)

\* the tasks handed to BackgroundTasks, and how many of them are let wait
MaxTasks == 1

SyncTask(force_rescan) == [task |-> "sync_directory", force_rescan |-> force_rescan]

BuildTask == [task |-> "build_index", force_rescan |-> FALSE]

\* GET /sync, lines 175-199
GetSync ==
    /\ response # NoRequest
    /\ \E x_api_key \in Headers :
          IF verify_api_key(x_api_key)
          THEN \E wait \in BOOLEAN : \E force_rescan \in BOOLEAN :
                 IF wait
                 THEN /\ SyncWith(force_rescan, "sync_directory")
                      /\ Answered("GET /sync", x_api_key, "sync_directory")
                      /\ UNCHANGED <<auto_sync, sync_interval, sync_thread,
                                     API_KEY, background_tasks, ext_vars>>
                 ELSE /\ Cardinality(background_tasks) < MaxTasks
                      /\ background_tasks' =
                            background_tasks \cup {SyncTask(force_rescan)}
                      /\ Answered("GET /sync", x_api_key, "add_task")
                      /\ UNCHANGED <<em_vars, env_vars, disk,
                                     scan_file_hashes, gb_vars, history_last,
                                     auto_sync, sync_interval, sync_thread,
                                     file_tree_cache, API_KEY, last, ext_vars>>
          ELSE Unauthorized("GET /sync", x_api_key)

\* POST /rebuild without a new local_path, lines 202-244
rebuild_index ==
    /\ response # NoRequest
    /\ \E x_api_key \in Headers :
          IF verify_api_key(x_api_key)
          THEN \E wait \in BOOLEAN :
                 IF wait
                 THEN /\ BuildIndex
                      /\ Answered("POST /rebuild", x_api_key, "build_index")
                      /\ UNCHANGED <<auto_sync, sync_interval, sync_thread,
                                     API_KEY, background_tasks, ext_vars>>
                 ELSE /\ Cardinality(background_tasks) < MaxTasks
                      /\ background_tasks' = background_tasks \cup {BuildTask}
                      /\ Answered("POST /rebuild", x_api_key, "add_task")
                      /\ UNCHANGED <<em_vars, env_vars, disk,
                                     scan_file_hashes, gb_vars, history_last,
                                     auto_sync, sync_interval, sync_thread,
                                     file_tree_cache, API_KEY, last, ext_vars>>
          ELSE Unauthorized("POST /rebuild", x_api_key)

\* GET /files, lines 315-327: get_file_structure at the default depth 0
get_files ==
    /\ response # NoRequest
    /\ \E x_api_key \in Headers :
          IF verify_api_key(x_api_key)
          THEN \E force_refresh \in BOOLEAN :
                  /\ GetFileStructure(force_refresh, 0)
                  /\ Answered("GET /files", x_api_key, "get_file_structure")
                  /\ UNCHANGED <<auto_sync, sync_interval, sync_thread,
                                 API_KEY, background_tasks, ext_vars>>
          ELSE Unauthorized("GET /files", x_api_key)

\* a background task runs after its response was sent
RunBackgroundTask ==
    \E t \in background_tasks :
       /\ background_tasks' = background_tasks \ {t}
       /\ IF t.task = "sync_directory"
          THEN SyncWith(t.force_rescan, "sync_directory")
          ELSE BuildIndex
       /\ UNCHANGED <<auto_sync, sync_interval, sync_thread, API_KEY,
                      response, ext_vars>>

\* startup_event, lines 107-124: no index is persisted yet, so the index is
\* built; build_index leaves a graph file unless there is no Python file,
\* and then the second build_graph changes nothing either
startup_event ==
    /\ response = NoRequest
    /\ BuildIndex
    /\ response' = [endpoint |-> "startup"]
    /\ UNCHANGED <<auto_sync, sync_interval, sync_thread, API_KEY,
                   background_tasks, ext_vars>>

\* the module is imported (lines 27-47) for a project of one Python file:
\* the Orchestrator is made with auto_sync=True, which starts the loop
\* thread, with or without a secret
InitApi ==
    /\ fs = [p \in Files |-> IF p = "a.py" THEN SrcHelper ELSE NoFile]
    /\ unreadable = {}
    /\ unlistable = {}
    /\ disk = [f \in DiskFiles |-> NoDiskFile]
    /\ ScanInit /\ GbInit /\ EmInit(FALSE)
    /\ history_last = EmptyDict
    /\ auto_sync = TRUE
    /\ sync_interval = DefaultSyncInterval
    /\ sync_thread = "test"
    /\ file_tree_cache = NoTree
    /\ API_KEY \in {NoKey, Secret}
    /\ response = NoRequest
    /\ background_tasks = {}
    /\ ExtIdle

ApiNext ==
    \/ startup_event
    \/ read_root
    \/ ReadingRequest
    \/ generate_prompt
    \/ GetSync
    \/ rebuild_index
    \/ PostAutoSync
    \/ get_auto_sync
    \/ get_files
    \/ RunBackgroundTask

\* the requests served by one run of the API server, the loop thread left
\* out (its steps are those of sync_task, taken in SpecAutoSync)
SpecApi == InitApi /\ [][ApiNext]_vars

\* the module is imported for a project of one Python file, or the
\* Orchestrator was made again by POST /rebuild with a new local_path (lines
\* 220-227), which keeps the auto_sync it finds: with the marker set the
\* loop thread was started by __init__, without it there is none
InitFlag ==
    /\ fs = [p \in Files |-> IF p = "a.py" THEN SrcHelper ELSE NoFile]
    /\ unreadable = {}
    /\ unlistable = {}
    /\ disk = [f \in DiskFiles |-> NoDiskFile]
    /\ ScanInit /\ GbInit /\ EmInit(FALSE)
    /\ history_last = EmptyDict
    /\ auto_sync \in BOOLEAN
    /\ sync_interval = DefaultSyncInterval
    /\ sync_thread = IF auto_sync THEN StartedThread(NoThread) ELSE NoThread
    /\ file_tree_cache = NoTree
    /\ API_KEY \in {NoKey, Secret}
    /\ response = NoRequest
    /\ background_tasks = {}
    /\ ExtIdle

FlagNext ==
    \/ startup_event
    \/ PostAutoSync
    \/ get_auto_sync
    \/ read_root
    \/ sync_task

\* the requests that set and report the automatic synchronisation, served
\* while the loop thread runs
SpecFlag == InitFlag /\ [][FlagNext]_vars

\* the same with the loop thread scheduled: it is a started thread of the
\* server process
SpecEnable == InitFlag /\ [][FlagNext]_vars /\ AutoSyncFairness

(***************************************************************************)
(* Desktop Control Panel  (src/agent_controller.py)                        *)
(***************************************************************************)
\* the text of the interval entry: a number, or a text int() rejects
EnteredIntervals == {NoInterval} \cup {Interval(n) : n \in {-1, 5, 30}}

\* the interval entry's initial text (line 341)
PanelInterval == 90

\* _toggle_auto_sync, lines 753-778, on a panel that has made its
\* Orchestrator: the check box is now checked or not
toggle_auto_sync(checked, entered) ==
    /\ IF ~entered.given
       THEN UNCHANGED <<auto_sync, sync_interval, sync_thread>>
       ELSE IF checked
       THEN /\ auto_sync' = TRUE
            /\ sync_interval' = entered.value
            /\ sync_thread' = StartedThread(sync_thread)
       ELSE /\ auto_sync' = FALSE
            /\ UNCHANGED <<sync_interval, sync_thread>>
    /\ last' = [op |-> "_toggle_auto_sync", checked |-> checked,
                entered |-> entered]
    /\ UNCHANGED <<em_vars, env_vars, disk, scan_file_hashes, gb_vars,
                   history_last, file_tree_cache, API_KEY, response,
                   background_tasks, ext_vars>>

ToggleAutoSync ==
    \E checked \in BOOLEAN : \E entered \in EnteredIntervals :
        toggle_auto_sync(checked, entered)

\* the panel made its Orchestrator with the check box clear and the entry
\* at its initial text (lines 661-664)
InitPanel ==
    /\ EnvInit /\ ScanInit /\ GbInit /\ EmInit(FALSE)
    /\ history_last = EmptyDict
    /\ auto_sync = FALSE
    /\ sync_interval = PanelInterval
    /\ sync_thread = NoThread
    /\ file_tree_cache = NoTree
    /\ API_KEY = NoKey
    /\ response = NoRequest
    /\ background_tasks = {}
    /\ ExtIdle

PanelNext == ToggleAutoSync \/ sync_task

\* the operator toggling the automatic synchronisation of the panel's
\* Orchestrator while its loop thread runs
SpecPanel == InitPanel /\ [][PanelNext]_vars

\* stop_auto_sync() called on its own, as AgentController.stop does (lines
\* 908-909)
StopAutoSync ==
    /\ stop_auto_sync
    /\ last' = [op |-> "stop_auto_sync"]
    /\ UNCHANGED <<em_vars, env_vars, disk, scan_file_hashes, gb_vars,
                   history_last, sync_interval, file_tree_cache, API_KEY,
                   response, background_tasks, ext_vars>>

\* the panel made its Orchestrator with the check box checked: __init__
\* started the loop thread (rag_manager.py lines 92-94)
InitAutoSync ==
    /\ EnvInit /\ ScanInit /\ GbInit /\ EmInit(FALSE)
    /\ history_last = EmptyDict
    /\ auto_sync = TRUE
    /\ sync_interval = PanelInterval
    /\ sync_thread = StartedThread(NoThread)
    /\ file_tree_cache = NoTree
    /\ API_KEY = NoKey
    /\ response = NoRequest
    /\ background_tasks = {}
    /\ ExtIdle

AutoSyncNext == StopAutoSync \/ ToggleAutoSync \/ sync_task

\* the loop thread running while the synchronisation is stopped and
\* enabled again
SpecAutoSync == InitAutoSync /\ [][AutoSyncNext]_vars /\ AutoSyncFairness

(***************************************************************************)
(* Control Panel: ProcessManager  (src/agent_controller.py)                *)
(***************************************************************************)
\* how many processes the panel starts; the id n stands for "proc_n"
MaxProcesses == 2

ProcessIds == 1..MaxProcesses

Platforms == {"win32", "linux"}

\* a tracked child: it ends within the wait when it gets SIGTERM
\* ("running"), it does not ("ignoring"), or it has ended by itself and was
\* never waited for ("exited")
ChildStates == {"running", "ignoring", "exited"}

\* stop_process, lines 124-154, as a function of the tracked processes.  On
\* win32 taskkill runs with check=False; elsewhere os.kill succeeds on a
\* child that was not waited for, and process.wait(timeout=5) raises
\* TimeoutExpired for a child that does not end, which the except clause
\* turns into False with the id still tracked.
StopOutcome(procs, process_id, plat) ==
    IF process_id \notin DOMAIN procs
    THEN [processes |-> procs, returned |-> FALSE]
    ELSE IF plat = "win32" \/ procs[process_id] # "ignoring"
    THEN [processes |-> DictDel(procs, {process_id}), returned |-> TRUE]
    ELSE [processes |-> procs, returned |-> FALSE]

RECURSIVE CleanupFrom(_, _, _, _)
\* lines 188-189: stop_process for every id of list(self.processes.keys())
CleanupFrom(procs, ids, i, plat) ==
    IF i > Len(ids) THEN procs
    ELSE CleanupFrom(StopOutcome(procs, ids[i], plat).processes, ids, i + 1,
                     plat)

\* the keys of a dict in insertion order: the ids ascending
RECURSIVE KeyList(_)
KeyList(ids) ==
    IF ids = {} THEN <<>>
    ELSE LET k == CHOOSE x \in ids : \A y \in ids : x <= y
         IN <<k>> \o KeyList(ids \ {k})

\* cleanup_all_processes, lines 186-200: after the loop ngrok and uvicorn
\* are killed by name, which ends some of the children still tracked
AfterCleanup(procs, plat) ==
    LET remaining == CleanupFrom(procs, KeyList(DOMAIN procs), 1, plat)
    IN {[id \in DOMAIN remaining |->
            IF id \in killed THEN "exited" ELSE remaining[id]] :
        killed \in SUBSET DOMAIN remaining}

\* start_process, lines 50-122: the child is tracked under a new id, or
\* Popen raises and None is returned
start_process ==
    /\ process_counter < MaxProcesses
    /\ \/ \E child \in {"running", "ignoring"} :
            /\ process_counter' = process_counter + 1
            /\ processes' = DictSet(processes, process_counter + 1, child)
            /\ last' = [op |-> "start_process",
                        returned |-> process_counter + 1]
       \/ /\ UNCHANGED <<processes, process_counter>>
          /\ last' = [op |-> "start_process", returned |-> 0]
    /\ UNCHANGED <<em_vars, env_vars, disk, scan_file_hashes, gb_vars,
                   history_last, auto_sync, sync_interval, sync_thread,
                   file_tree_cache, API_KEY, response, background_tasks,
                   platform, watch_vars, run_vars>>

\* a child ends by itself
ChildExits ==
    /\ \E id \in DOMAIN processes :
          /\ processes[id] # "exited"
          /\ processes' = [processes EXCEPT ![id] = "exited"]
          /\ last' = [op |-> "exit", process_id |-> id]
    /\ UNCHANGED <<em_vars, env_vars, disk, scan_file_hashes, gb_vars,
                   history_last, auto_sync, sync_interval, sync_thread,
                   file_tree_cache, API_KEY, response, background_tasks,
                   process_counter, platform, watch_vars, run_vars>>

stop_process(process_id) ==
    LET o == StopOutcome(processes, process_id, platform)
    IN /\ processes' = o.processes
       /\ last' = [op |-> "stop_process", process_id |-> process_id,
                   tracked |-> process_id \in DOMAIN processes,
                   before |-> processes, returned |-> o.returned]
       /\ UNCHANGED <<em_vars, env_vars, disk, scan_file_hashes, gb_vars,
                      history_last, auto_sync, sync_interval, sync_thread,
                      file_tree_cache, API_KEY, response, background_tasks,
                      process_counter, platform, watch_vars, run_vars>>

StopProcess == \E process_id \in ProcessIds : stop_process(process_id)

cleanup_all_processes ==
    /\ processes' \in AfterCleanup(processes, platform)
    /\ last' = [op |-> "cleanup_all_processes", before |-> processes]
    /\ UNCHANGED <<em_vars, env_vars, disk, scan_file_hashes, gb_vars,
                   history_last, auto_sync, sync_interval, sync_thread,
                   file_tree_cache, API_KEY, response, background_tasks,
                   process_counter, platform, watch_vars, run_vars>>

\* AgentController.stop, lines 905-914, run when the window is closed
\* (lines 923-927)
stop ==
    /\ auto_sync' = IF auto_sync THEN StoppedFlag(auto_sync, sync_thread)
                    ELSE auto_sync
    /\ processes' \in AfterCleanup(processes, platform)
    /\ last' = [op |-> "stop", before |-> processes]
    /\ UNCHANGED <<em_vars, env_vars, disk, scan_file_hashes, gb_vars,
                   history_last, sync_interval, sync_thread,
                   file_tree_cache, API_KEY, response, background_tasks,
                   process_counter, platform, watch_vars, run_vars>>

\* a Control Panel on either platform family that has started nothing
InitProcesses ==
    /\ EnvInit /\ ScanInit /\ GbInit /\ EmInit(FALSE)
    /\ history_last = EmptyDict
    /\ auto_sync = FALSE
    /\ sync_interval = PanelInterval
    /\ sync_thread = NoThread
    /\ file_tree_cache = NoTree
    /\ API_KEY = NoKey
    /\ response = NoRequest
    /\ background_tasks = {}
    /\ processes = EmptyDict
    /\ process_counter = 0
    /\ platform \in Platforms
    /\ handler_changed_files = {}
    /\ last_processed_time = 0
    /\ now = 0
    /\ RunIdle

ProcessNext ==
    \/ start_process
    \/ ChildExits
    \/ StopProcess
    \/ cleanup_all_processes
    \/ stop

\* the external processes the Control Panel starts and stops
SpecProcesses == InitProcesses /\ [][ProcessNext]_vars

(***************************************************************************)
(* Local Filesystem Scanner: the file watch  (src/app/local_scan_manager.py)*)
(***************************************************************************)
\* self.processing_interval
ProcessingInterval == 5

\* how far the clock runs
MaxTime == 11

\* the paths the watch reports, and the three kinds of events handled
EventPaths == {"a.py", "sub/b.py", "n.bin"}

EventKinds == {"on_modified", "on_created", "on_deleted"}

\* _should_track_file, lines 34-38, with the Scanner's tracked extensions
should_track_file(path) ==
    TrackExtensions = {} \/ Entries(path).ext \in TrackExtensions

\* a test that forgets the interval
ReadyToProcess_IgnoresInterval(current_time, last_time, buffer) ==
    buffer # {}

\* line 58
ReadyToProcess(current_time, last_time, buffer) ==
    current_time - last_time >= ProcessingInterval /\ buffer # {}

\* on_modified, on_created and on_deleted (lines 40-53) with
\* _process_if_ready (lines 55-61); the callback, a parameter of the
\* handler, is taken to return, and what it was given is kept in last
on_event(kind, path, is_directory) ==
    /\ IF ~is_directory /\ should_track_file(path)
       THEN LET buffer == handler_changed_files \cup {get_full_path(path)}
                current_time == now
            IN IF ReadyToProcess(current_time, last_processed_time, buffer)
               THEN /\ last' = [op |-> "callback", paths |-> buffer,
                                at |-> current_time,
                                previous |-> last_processed_time]
                    /\ handler_changed_files' = {}
                    /\ last_processed_time' = current_time
               ELSE /\ handler_changed_files' = buffer
                    /\ UNCHANGED <<last_processed_time, last>>
       ELSE UNCHANGED <<handler_changed_files, last_processed_time, last>>
    /\ UNCHANGED <<em_vars, env_vars, disk, scan_file_hashes, gb_vars,
                   history_last, auto_sync, sync_interval, sync_thread,
                   file_tree_cache, API_KEY, response, background_tasks,
                   pm_vars, run_vars, now>>

OnEvent ==
    \E kind \in EventKinds : \E path \in EventPaths :
       \E is_directory \in BOOLEAN : on_event(kind, path, is_directory)

\* a second passes
Tick ==
    /\ now < MaxTime
    /\ now' = now + 1
    /\ UNCHANGED <<em_vars, env_vars, disk, scan_file_hashes, gb_vars,
                   history_last, auto_sync, sync_interval, sync_thread,
                   file_tree_cache, API_KEY, response, background_tasks,
                   pm_vars, run_vars, handler_changed_files,
                   last_processed_time,
                   last>>

WatchNext == OnEvent \/ Tick

InitWatch == RestIdle /\ EmInit(FALSE)

\* a handler made at time 0 that is sent events as time passes
SpecWatch == InitWatch /\ [][WatchNext]_vars

(***************************************************************************)
(* Chunker: very large files  (src/app/preprocessor.py)                    *)
(***************************************************************************)
\* chunk_size, overlap, the smallest window kept and the longest file that
\* gets a whole-file chunk (lines 163, 164, 170 and 153)
FullChunkLimit == 5000

ChunkSize == 1000

Overlap == 100

MinWindow == 100

\* the longest file explored, in lines
MaxLines == 5200

\* the loop of lines 166-182 from one value of range(0, total_lines,
\* chunk_size - overlap) on; chunks is the list built so far
RECURSIVE WindowsFrom(_, _, _)
WindowsFrom(start, total_lines, chunks) ==
    IF start >= total_lines
    THEN chunks
    ELSE LET end == Min(start + ChunkSize, total_lines)
         IN IF end - start < MinWindow /\ Len(chunks) > 0
            THEN chunks
            ELSE WindowsFrom(start + (ChunkSize - Overlap), total_lines,
                             Append(chunks, [kind |-> "window",
                                             start_line |-> start + 1,
                                             end_line |-> end]))

\* _process_large_file, lines 142-184, for a source of total_lines lines
ProcessLargeFile(total_lines) ==
    WindowsFrom(0, total_lines,
                IF total_lines <= FullChunkLimit
                THEN <<[kind |-> "full", start_line |-> 1,
                        end_line |-> total_lines]>>
                ELSE <<>>)

process_large_file(total_lines) ==
    /\ last.op = "none"
    /\ last' = [op |-> "_process_large_file", total_lines |-> total_lines,
                chunks |-> ProcessLargeFile(total_lines)]
    /\ UNCHANGED <<em_vars, env_vars, disk, scan_file_hashes, gb_vars,
                   app_vars>>

LargeFile == \E total_lines \in 1..MaxLines : process_large_file(total_lines)

InitChunker == RestIdle /\ EmInit(FALSE)

\* one very large file, of any length, handed to the Chunker
SpecChunker == InitChunker /\ [][LargeFile]_vars

(***************************************************************************)
(* Dependency Graph Builder: rebuilds after edits of the calls             *)
(***************************************************************************)
SrcMainCallsVendored == Source({[name |-> "main", calls |-> {"vendored"}]})  \* def main(): vendored()

SrcEmpty == Source({})                                              \* every definition removed

\* what the files are rewritten to between two builds
CallContents(p) ==
    CASE p = "a.py" -> {SrcHelper, SrcHelperCalls}
      [] p = "sub/b.py" -> {SrcMain, SrcMainCallsVendored, SrcEmpty}

\* the environment: a file is rewritten with other definitions or calls
RewriteFile ==
    \E p \in EditedFiles : \E c \in CallContents(p) :
        /\ fs[p] # c
        /\ fs' = [fs EXCEPT ![p] = c]
        /\ last' = [op |-> "edit"]
        /\ UNCHANGED <<em_vars, unreadable, unlistable, disk, scan_file_hashes,
                       gb_vars, app_vars>>

RebuildNext == build_graph \/ RewriteFile

InitRebuild == RestIdle /\ EmInit(FALSE)

\* one Builder whose graph is rebuilt as the files are rewritten
SpecRebuild == InitRebuild /\ [][RebuildNext]_vars

(***************************************************************************)
(* RAG Orchestrator: start_auto_sync step by step  (src/app/rag_manager.py)*)
(***************************************************************************)
\* how many loop threads may run without being self.sync_thread
MaxStray == 1

\* line 100 run by thread c: with a live thread the call returns, otherwise
\* it goes on to make one
StartCheck(c) ==
    /\ starters[c] = "idle"
    /\ starters' = [starters EXCEPT ![c] =
                       IF sync_thread # NoThread /\ is_alive(sync_thread)
                       THEN "idle" ELSE "create"]
    /\ last' = [op |-> "start_auto_sync", thread |-> c,
                returned |-> sync_thread # NoThread /\ is_alive(sync_thread)]
    /\ UNCHANGED <<em_vars, env_vars, disk, scan_file_hashes, gb_vars,
                   history_last, auto_sync, sync_interval, sync_thread,
                   file_tree_cache, API_KEY, response, background_tasks,
                   pm_vars, watch_vars, calls, stray_threads, replaced>>

\* lines 116-117 run by thread c: self.sync_thread is a new started thread;
\* the thread it referred to runs on if it was alive
StartCreate(c) ==
    /\ starters[c] = "create"
    /\ is_alive(sync_thread) => Len(stray_threads) < MaxStray
    /\ stray_threads' = IF is_alive(sync_thread)
                        THEN Append(stray_threads, sync_thread)
                        ELSE stray_threads
    /\ sync_thread' = "test"
    /\ starters' = [starters EXCEPT ![c] = "idle"]
    /\ last' = [op |-> "start_auto_sync", thread |-> c, returned |-> TRUE]
    /\ UNCHANGED <<em_vars, env_vars, disk, scan_file_hashes, gb_vars,
                   history_last, auto_sync, sync_interval, file_tree_cache,
                   API_KEY, response, background_tasks, pm_vars, watch_vars,
                   calls, replaced>>

StartAutoSync == \E c \in Starters : StartCheck(c) \/ StartCreate(c)

\* the caller's "auto_sync = True" that precedes its start_auto_sync()
\* (main.py line 270, agent_controller.py line 766)
SetMarker ==
    /\ ~auto_sync
    /\ auto_sync' = TRUE
    /\ last' = [op |-> "auto_sync = True"]
    /\ UNCHANGED <<em_vars, env_vars, disk, scan_file_hashes, gb_vars,
                   history_last, sync_interval, sync_thread, file_tree_cache,
                   API_KEY, response, background_tasks, ext_vars>>

\* the sequence s without its i-th element
Without(s, i) == SubSeq(s, 1, i - 1) \o SubSeq(s, i + 1, Len(s))

\* one step of sync_task (lines 105-114) in a loop thread that is not
\* self.sync_thread; a thread that has ended is forgotten
stray_task(i) ==
    LET state == stray_threads[i]
    IN /\ IF state = "cycle"
          THEN SyncWith(FALSE, "sync_directory")
          ELSE UNCHANGED <<em_vars, env_vars, disk, scan_file_hashes,
                           gb_vars, history_last, file_tree_cache, last>>
       /\ stray_threads' =
             CASE state = "test" ->
                    [stray_threads EXCEPT ![i] =
                        IF auto_sync THEN "cycle" ELSE "exiting"]
               [] state = "cycle" -> [stray_threads EXCEPT ![i] = "sleep"]
               [] state = "sleep" ->
                    [stray_threads EXCEPT ![i] =
                        IF sync_interval < 0 THEN "exiting" ELSE "test"]
               [] state = "exiting" -> Without(stray_threads, i)
       /\ UNCHANGED <<auto_sync, sync_interval, sync_thread, API_KEY,
                      response, background_tasks, pm_vars, watch_vars, calls,
                      starters, replaced>>

StrayTask == \E i \in DOMAIN stray_threads : stray_task(i)

ThreadsNext ==
    \/ SetMarker
    \/ StartAutoSync
    \/ StopAutoSync
    \/ sync_task
    \/ StrayTask

\* start_auto_sync and stop_auto_sync called from two threads on one
\* Orchestrator while its loop threads run
SpecThreads == InitFlag /\ [][ThreadsNext]_vars

(***************************************************************************)
(* RAG Orchestrator: process_changed_files step by step                    *)
(* (src/app/rag_manager.py, src/app/embedding_manager.py)                  *)
(***************************************************************************)
\* what a call has done so far is kept in its trace
Event(step, detail) == [step |-> step, detail |-> detail]

Logged(t, event) == Append(calls[t].trace, event)

\* lines 686-691 at the time they run
RelativeChangedPaths(order) ==
    {get_relative_path(a) : a \in {x \in Range(order) : PathExists(x)}}

\* sync_directory up to its call of process_changed_files (lines 129-152)
\* in thread t: the scan, and the set of changed files iterated in some
\* order.  Only a request can ask for force_rescan.
Begin(t) ==
    /\ response # NoRequest
    /\ calls[t].pc = "idle"
    /\ \E force_rescan \in (IF t = "request" THEN BOOLEAN ELSE {FALSE}) :
       \E s \in {ScanOutcome(force_rescan, NoDepthLimit, scan_file_hashes)} :
          /\ s.changed_files # {}
          /\ scan_file_hashes' = s.hashes
          /\ disk' = [disk EXCEPT ![ScannerHashFile] = Saved(s.hashes)]
          /\ \E order \in IterationOrders({get_full_path(p) :
                                              p \in s.changed_files}) :
                calls' = [calls EXCEPT ![t] =
                            [NoCall EXCEPT !.pc = "graph", !.order = order,
                                           !.status = "running"]]
    /\ UNCHANGED <<em_vars, env_vars, gb_vars, app_vars_but_run, last>>

\* a call that goes from the graph straight to the files
AfterGraph_SkipsRemoval(relative_changed_paths) == "files"

\* lines 693-698: remove_chunks is called when some changed file exists
AfterGraph(relative_changed_paths) ==
    IF relative_changed_paths # {} THEN "identify" ELSE "files"

\* line 683: build_graph()
StepGraph(t) ==
    /\ calls[t].pc = "graph"
    /\ \E b \in {BuildOutcome(graph, gb_file_hashes, disk)} :
          /\ graph' = b.graph
          /\ gb_file_hashes' = b.hashes
          /\ gb_changed_files' = b.changed_files
          /\ disk' = b.disk
    /\ calls' = [calls EXCEPT
                   ![t].pc = AfterGraph(RelativeChangedPaths(calls[t].order)),
                   ![t].trace = Logged(t, Event("build_graph", {}))]
    /\ UNCHANGED <<em_vars, env_vars, scan_file_hashes, app_vars_but_run,
                   last>>

\* remove_chunks, lines 421-441 (embedding_manager.py): the chunks to keep
\* are picked from self.metadata as it is now and the hashes of the others
\* are deleted; with nothing to remove the call returns
StepIdentify(t) ==
    LET paths == RelativeChangedPaths(calls[t].order)
        keep == KeptPositions(metadata, paths)
        gone == DOMAIN metadata \ keep
    IN /\ calls[t].pc = "identify"
       /\ chunk_hashes' =
             DictDel(chunk_hashes, {get_chunk_key(metadata[i]) : i \in gone})
       /\ calls' = [calls EXCEPT
                      ![t].pc = IF gone = {} THEN "files" ELSE "copy",
                      ![t].keep = keep,
                      ![t].metadata_to_keep = SelectFrom(metadata, keep, 1),
                      ![t].trace =
                          IF gone = {}
                          THEN Logged(t, Event("remove_chunks", paths))
                               \o <<Event("removed", paths)>>
                          ELSE Logged(t, Event("remove_chunks", paths))]
       /\ UNCHANGED <<metadata, index, em_last, em_trace, env_vars, disk,
                      scan_file_hashes, gb_vars, app_vars_but_run, last>>

\* lines 470-474: the kept vectors are copied from self.index as it is now;
\* index.reconstruct raises for a position the index does not hold, and
\* nothing catches it before the caller of process_changed_files
StepCopy(t) ==
    /\ calls[t].pc = "copy"
    /\ calls' = IF calls[t].keep \subseteq DOMAIN index
                THEN [calls EXCEPT
                        ![t].pc = "swap_index",
                        ![t].new_index = SelectFrom(index, calls[t].keep, 1)]
                ELSE [calls EXCEPT ![t].pc = "done", ![t].status = "error"]
    /\ UNCHANGED <<em_vars, env_vars, disk, scan_file_hashes, gb_vars,
                   app_vars_but_run, last>>

\* line 477: self.index = new_index
StepSwapIndex(t) ==
    /\ calls[t].pc = "swap_index"
    /\ index' = calls[t].new_index
    /\ calls' = [calls EXCEPT ![t].pc = "swap_metadata"]
    /\ UNCHANGED <<metadata, chunk_hashes, em_last, em_trace, env_vars, disk,
                   scan_file_hashes, gb_vars, app_vars_but_run, last>>

\* line 478: self.metadata = metadata_to_keep, and remove_chunks returns
StepSwapMetadata(t) ==
    /\ calls[t].pc = "swap_metadata"
    /\ metadata' = calls[t].metadata_to_keep
    /\ calls' = [calls EXCEPT
                   ![t].pc = "files",
                   ![t].trace =
                       Logged(t, Event("removed",
                                       RelativeChangedPaths(calls[t].order)))]
    /\ UNCHANGED <<index, chunk_hashes, em_last, em_trace, env_vars, disk,
                   scan_file_hashes, gb_vars, app_vars_but_run, last>>

\* a loop that gives up at the first file that raises
AfterFile_AbortsOnError(raised, i, n, chunks) ==
    IF raised THEN "return"
    ELSE IF i < n THEN "files"
    ELSE IF chunks # <<>> THEN "analyse" ELSE "return"

\* lines 704-731: where the call goes after the i-th of n files; an
\* exception of the file is caught and logged (lines 719-720)
AfterFile(raised, i, n, chunks) ==
    IF i < n THEN "files"
    ELSE IF chunks # <<>> THEN "analyse" ELSE "return"

\* lines 704-722 (rag_manager.py), one file of the loop: a file that exists
\* and has a tracked extension is read, tracked and chunked; reading a file
\* that cannot be read raises
StepFile(t) ==
    LET c == calls[t]
        abs_path == c.order[c.i]
        rel_path == get_relative_path(abs_path)
        tracked == PathExists(abs_path)
                   /\ Entries(rel_path).ext \in TrackExtensions
        raised == tracked /\ rel_path \in unreadable
        extracted == tracked /\ ~raised
        chunks == IF extracted THEN c.changed_chunks \o ExtractChunks(abs_path)
                  ELSE c.changed_chunks
    IN /\ c.pc = "files"
       /\ history_last' =
             IF extracted
             THEN [p \in DOMAIN history_last \cup {rel_path} |->
                      IF p = rel_path THEN fs[p] ELSE history_last[p]]
             ELSE history_last
       /\ calls' = [calls EXCEPT
                      ![t].pc = AfterFile(raised, c.i, Len(c.order), chunks),
                      ![t].i = c.i + 1,
                      ![t].changed_chunks = chunks,
                      ![t].trace =
                          Logged(t, Event(IF raised THEN "file_raised"
                                          ELSE IF extracted THEN "file_extracted"
                                          ELSE "file_skipped", {rel_path}))]
       /\ UNCHANGED <<em_vars, env_vars, disk, scan_file_hashes, gb_vars,
                      auto_sync, sync_interval, sync_thread, file_tree_cache,
                      API_KEY, response, background_tasks, pm_vars,
                      watch_vars, starters, stray_threads, replaced, last>>

\* upsert_chunks(changed_chunks), lines 165-233 (embedding_manager.py): the
\* analysis against self.metadata as it is now, and the embedding of the one
\* batch, which succeeds or raises (the batch is then skipped)
StepAnalyse(t) ==
    /\ calls[t].pc = "analyse"
    /\ \E a \in {Analyse(calls[t].changed_chunks, metadata, chunk_hashes)} :
       \E encoded \in BOOLEAN :
          /\ chunk_hashes' = a.hashes
          /\ calls' = [calls EXCEPT
                         ![t].pc = IF a.proc = <<>> \/ ~encoded
                                   THEN "return" ELSE "apply",
                         ![t].proc = a.proc,
                         ![t].upd = a.upd,
                         ![t].j = 1,
                         ![t].trace =
                             Logged(t, Event("upsert_chunks",
                                             Range(calls[t].changed_chunks)))]
    /\ UNCHANGED <<metadata, index, em_last, em_trace, env_vars, disk,
                   scan_file_hashes, gb_vars, app_vars_but_run, last>>

\* lines 239-259, one chunk of the batch: self.metadata[update_idx] = chunk
\* raises IndexError when the list has become shorter, and nothing catches
\* it before the caller of process_changed_files
StepApply(t) ==
    LET c == calls[t]
        update == c.j - 1 < Len(c.upd)
        st == ApplyChunk([meta |-> metadata, idx |-> index, updates |-> 0,
                          additions |-> 0], c.proc[c.j], c.j, c.upd)
    IN /\ c.pc = "apply"
       /\ IF update /\ c.upd[c.j] \notin DOMAIN metadata
          THEN /\ calls' = [calls EXCEPT ![t].pc = "done",
                                         ![t].status = "error"]
               /\ UNCHANGED <<metadata, index>>
          ELSE /\ metadata' = st.meta
               /\ index' = st.idx
               /\ calls' = [calls EXCEPT
                              ![t].pc = IF c.j < Len(c.proc) THEN "apply"
                                        ELSE "return",
                              ![t].j = c.j + 1]
       /\ UNCHANGED <<chunk_hashes, em_last, em_trace, env_vars, disk,
                      scan_file_hashes, gb_vars, app_vars_but_run, last>>

\* sync_directory after process_changed_files returned (lines 155-167): the
\* file-tree cache is reset and the result says "success"
StepReturn(t) ==
    /\ calls[t].pc = "return"
    /\ file_tree_cache' = NoTree
    /\ calls' = [calls EXCEPT ![t].pc = "done", ![t].status = "success"]
    /\ UNCHANGED <<em_vars, env_vars, disk, scan_file_hashes, gb_vars,
                   history_last, auto_sync, sync_interval, sync_thread,
                   API_KEY, response, background_tasks, pm_vars, watch_vars,
                   starters, stray_threads, replaced, last>>

CallStep(t) ==
    \/ Begin(t)
    \/ StepGraph(t)
    \/ StepIdentify(t)
    \/ StepCopy(t)
    \/ StepSwapIndex(t)
    \/ StepSwapMetadata(t)
    \/ StepFile(t)
    \/ StepAnalyse(t)
    \/ StepApply(t)
    \/ StepReturn(t)

ManualSync == CallStep("request")

\* the permissions of the files change at any time, also between the scan of
\* a call and its loop over the files
CallNext == startup_event \/ Chmod \/ ManualSync

InitCall == RestIdle /\ EmInit(FALSE)

\* one manual sync of a server that has built its index, taken step by step
SpecCall == InitCall /\ [][CallNext]_vars

LoopSync == CallStep("loop")

RaceNext == startup_event \/ ManualSync \/ LoopSync

InitRace == RestIdle /\ EmInit(FALSE)

\* a cycle of the loop thread and a manual sync running at the same time on
\* one Orchestrator, any step of the one between any two steps of the other
SpecRace == InitRace /\ [][RaceNext]_vars

(***************************************************************************)
(* Embedding & Vector Index Manager: removals from an index of three files *)
(* (src/app/embedding_manager.py)                                          *)
(***************************************************************************)
StoredPaths == {"a.py", "b.py", "c.py"}

\* one chunk per file, in either version of its code
StoredKeys == {<<"a.py", "f">>, <<"b.py", "g">>, <<"c.py", "h">>}

StoredLists ==
    {s \in [1..3 -> [path : StoredPaths, name : {"f", "g", "h"},
                     code : EmCodes]] :
        /\ \A i \in 1..3 : get_chunk_key(s[i]) \in StoredKeys
        /\ \A i, j \in 1..3 : i # j => s[i].path # s[j].path}

\* the index after one upsert_chunks of a chunk of each of three files into a
\* new empty index, and a second one of at most one chunk
InitRemove ==
    /\ RestIdle
    /\ em_trace = FALSE
    /\ em_last = EmNoCall
    /\ \E chunks \in StoredLists :
       \E again \in {<<>>} \cup {<<chunks[i]>> : i \in 1..3}
                            \cup {<<[chunks[i] EXCEPT !.code = c]>> :
                                      i \in 1..3, c \in EmCodes} :
       \E o1 \in {UpsertOutcome(chunks, DefaultBatchSize, {}, <<>>, <<>>,
                                EmptyDict)} :
       \E o \in {UpsertOutcome(again, DefaultBatchSize, {}, o1.meta, o1.idx,
                               o1.hashes)} :
          /\ metadata = o.meta
          /\ index = o.idx
          /\ chunk_hashes = o.hashes

RemoveStored ==
    \E file_paths \in SUBSET StoredPaths : remove_chunks(file_paths)

RemoveNext == RemoveStored \/ Upsert

\* removals from an index of three files, and upserts into what they leave
SpecRemove == InitRemove /\ [][RemoveNext]_vars

(***************************************************************************)
(* RAG Orchestrator: full rebuilds of a directory that is edited           *)
(* (src/app/rag_manager.py)                                                *)
(***************************************************************************)
BuildNext == build_index \/ WriteFile

InitBuild == RestIdle /\ EmInit(FALSE)

\* build_index() called again and again on one Orchestrator, files written
\* and deleted in between
SpecBuild == InitBuild /\ [][BuildNext]_vars

(***************************************************************************)
(* HTTP API Server: POST /rebuild with a local_path  (src/main.py)         *)
(***************************************************************************)
MaxReplaced == 1     \* Orchestrators replaced in one run of the server
MaxOldSyncs == 2     \* sync_directory() calls counted per replaced loop

\* what stays of an Orchestrator the global rag no longer refers to: its
\* loop thread, which holds the object, and the object's own state.  syncs
\* counts the sync_directory() calls its loop began since it was replaced.
ReplacedRag ==
    [auto_sync |-> auto_sync, sync_interval |-> sync_interval,
     sync_thread |-> sync_thread, scan_file_hashes |-> scan_file_hashes,
     graph |-> graph, gb_file_hashes |-> gb_file_hashes,
     metadata |-> metadata, index |-> index, chunk_hashes |-> chunk_hashes,
     syncs |-> 0]

\* POST /rebuild with a local_path (here the directory already served),
\* lines 202-244: rag = RAGManager(local_path, auto_sync=rag.auto_sync,
\* sync_interval=rag.sync_interval) and then build_index() on the new
\* object, at once or as a background task.  RAGManager.__init__
\* (rag_manager.py lines 32-94) makes new components, which load what is
\* persisted, and starts a loop thread when auto_sync is set; nothing is
\* called on the object that was replaced.
rebuild_index_with_path ==
    /\ response # NoRequest
    /\ Len(replaced) < MaxReplaced
    /\ \E x_api_key \in Headers :
          IF verify_api_key(x_api_key)
          THEN /\ replaced' = Append(replaced, ReplacedRag)
               /\ sync_thread' = IF auto_sync THEN "test" ELSE NoThread
               /\ scan_file_hashes' = LoadFileHashes(disk)
               /\ \E wait \in BOOLEAN :
                     IF wait
                     THEN \E chunks \in {ProcessChunks(ScanFiles, 1)} :
                          \E failed \in SUBSET (0..(TotalBatches(
                                Len(chunks), DefaultBatchSize) - 1)) :
                          \E u \in {UpsertOutcome(chunks, DefaultBatchSize,
                                       failed, metadata, index,
                                       chunk_hashes)} :
                          \E b \in {BuildOutcome(EmptyDict,
                                       LoadHashes(disk, EmptyDict), disk)} :
                             /\ metadata' = u.meta
                             /\ index' = u.idx
                             /\ chunk_hashes' = u.hashes
                             /\ em_last' = IF chunks # <<>>
                                           THEN [op |-> "upsert"] ELSE em_last
                             /\ graph' = b.graph
                             /\ gb_file_hashes' = b.hashes
                             /\ gb_changed_files' = b.changed_files
                             /\ disk' = b.disk
                             /\ last' = [op |-> "build_index",
                                         status |-> "success",
                                         chunks_processed |-> Len(chunks)]
                             /\ Answered("POST /rebuild", x_api_key,
                                         "build_index")
                             /\ UNCHANGED background_tasks
                     ELSE /\ Cardinality(background_tasks) < MaxTasks
                          /\ background_tasks' =
                                background_tasks \cup {BuildTask}
                          /\ graph' = EmptyDict
                          /\ gb_file_hashes' = LoadHashes(disk, EmptyDict)
                          /\ gb_changed_files' = {}
                          /\ Answered("POST /rebuild", x_api_key, "add_task")
                          /\ UNCHANGED <<em_vars, disk, last>>
               /\ file_tree_cache' = NoTree
               /\ UNCHANGED <<em_trace, env_vars, history_last, auto_sync,
                              sync_interval, API_KEY, pm_vars, watch_vars,
                              calls, starters, stray_threads>>
          ELSE /\ Unauthorized("POST /rebuild", x_api_key)
               /\ UNCHANGED replaced

\* one sync_directory() (lines 129-190) of the replaced Orchestrator r, as a
\* function of its own state and of the persisted files it shares
ReplacedSyncOutcomes(r, d) ==
    LET s == ScanOutcome(FALSE, NoDepthLimit, r.scan_file_hashes)
        d1 == [d EXCEPT ![ScannerHashFile] = Saved(s.hashes)]
        r1 == [r EXCEPT !.scan_file_hashes = s.hashes]
    IN IF s.changed_files = {}
       THEN {[rag |-> r1, disk |-> d1]}
       ELSE LET abs_changed_files ==
                    {get_full_path(p) : p \in s.changed_files}
                relative_changed_paths ==
                    {get_relative_path(a) :
                        a \in {x \in abs_changed_files : PathExists(x)}}
                b == BuildOutcome(r.graph, r.gb_file_hashes, d1)
                rm == RemoveOutcome(relative_changed_paths, r.metadata,
                                    r.index, r.chunk_hashes)
            IN {[rag |->
                   [r1 EXCEPT
                      !.graph = b.graph,
                      !.gb_file_hashes = b.hashes,
                      !.metadata = IF rm.raised THEN r.metadata ELSE u.meta,
                      !.index = IF rm.raised THEN r.index ELSE u.idx,
                      !.chunk_hashes = IF rm.raised THEN rm.hashes
                                       ELSE u.hashes],
                  disk |-> b.disk] :
                   u \in UNION {
                      {UpsertOutcome(ChangedChunks(order, 1),
                                     DefaultBatchSize, failed, rm.meta,
                                     rm.idx, rm.hashes) :
                          failed \in SUBSET (0..(TotalBatches(
                              Len(ChangedChunks(order, 1)),
                              DefaultBatchSize) - 1))} :
                      order \in IterationOrders(abs_changed_files)}}

\* one step of sync_task (rag_manager.py lines 105-114) in the loop thread of
\* the i-th replaced Orchestrator: it tests that object's auto_sync, which
\* nothing can reach any more
replaced_task(i) ==
    LET r == replaced[i]
    IN /\ is_alive(r.sync_thread)
       /\ CASE r.sync_thread = "test" ->
                 /\ r.auto_sync => r.syncs < MaxOldSyncs
                 /\ replaced' = [replaced EXCEPT ![i] =
                       IF r.auto_sync
                       THEN [r EXCEPT !.sync_thread = "cycle",
                                      !.syncs = @ + 1]
                       ELSE [r EXCEPT !.sync_thread = "exiting"]]
                 /\ UNCHANGED disk
            [] r.sync_thread = "cycle" ->
                 \E o \in ReplacedSyncOutcomes(r, disk) :
                    /\ \A k \in DOMAIN o.rag.graph :
                          Len(o.rag.graph[k].called_by) <= MaxCalledBy
                    /\ replaced' = [replaced EXCEPT ![i] =
                          [o.rag EXCEPT !.sync_thread = "sleep"]]
                    /\ disk' = o.disk
            [] r.sync_thread = "sleep" ->
                 /\ replaced' = [replaced EXCEPT ![i].sync_thread =
                       IF r.sync_interval < 0 THEN "dead" ELSE "test"]
                 /\ UNCHANGED disk
            [] r.sync_thread = "exiting" ->
                 /\ replaced' = [replaced EXCEPT ![i].sync_thread = "dead"]
                 /\ UNCHANGED disk
       /\ UNCHANGED <<em_vars, env_vars, scan_file_hashes, gb_vars,
                      history_last, auto_sync, sync_interval, sync_thread,
                      file_tree_cache, API_KEY, response, background_tasks,
                      pm_vars, watch_vars, calls, starters, stray_threads,
                      last>>

ReplacedTask == \E i \in DOMAIN replaced : replaced_task(i)

\* POST /auto_sync?enabled=false with an accepted key: it reaches the
\* Orchestrator the global rag refers to now
DisableAutoSync ==
    /\ response # NoRequest
    /\ \E x_api_key \in Headers :
          /\ verify_api_key(x_api_key)
          /\ set_auto_sync(x_api_key, FALSE, NoInterval)

ReplaceNext ==
    \/ startup_event
    \/ rebuild_index_with_path
    \/ DisableAutoSync
    \/ RunBackgroundTask
    \/ sync_task
    \/ ReplacedTask

\* one run of the server in which POST /rebuild replaces the Orchestrator,
\* the loop threads of the old and of the new one running
SpecReplace == InitApi /\ [][ReplaceNext]_vars

(***************************************************************************)
(* Local Filesystem Scanner: the file watch while time goes on             *)
(***************************************************************************)
\* The handler has no timer and no thread of its own: _process_if_ready is
\* called by on_modified, on_created and on_deleted only (lines 43, 48, 53),
\* so the watch acts when the observer delivers an event.  Time passes
\* whatever happens; whether a further event is delivered is up to the
\* environment, so only the clock is fair.
SpecWatchLive == InitWatch /\ [][WatchNext]_vars /\ WF_vars(Tick)

(***************************************************************************)
(* RAG Orchestrator: the first indexing of a directory, by either path     *)
(***************************************************************************)
\* nothing has been indexed yet
EmptyIndex == metadata = <<>> /\ index = <<>> /\ chunk_hashes = EmptyDict

\* the environment: the test file of the directory is written or deleted
WriteTestFile ==
    \E c \in Contents("test_a.py") \cup {NoFile} :
        /\ fs["test_a.py"] # c
        /\ fs' = [fs EXCEPT !["test_a.py"] = c]
        /\ last' = [op |-> "edit"]
        /\ UNCHANGED <<em_vars, unreadable, unlistable, disk, scan_file_hashes,
                       gb_vars, app_vars>>

\* build_index() on an empty index
FirstBuild == EmptyIndex /\ build_index

\* sync_directory(force_rescan=True) on an empty index
FirstForcedSync ==
    /\ EmptyIndex
    /\ SyncWith(TRUE, "sync_directory")
    /\ UNCHANGED ctl_vars

SelectNext == WriteFile \/ WriteTestFile \/ FirstBuild \/ FirstForcedSync

InitSelect == RestIdle /\ EmInit(FALSE)

\* a directory that is edited and then indexed for the first time, by a full
\* build or by a forced sync
SpecSelect == InitSelect /\ [][SelectNext]_vars

(***************************************************************************)
(* RAG Orchestrator: retrieval  (src/app/rag_manager.py)                   *)
(***************************************************************************)
MaxTopK == 2

\* f"{meta['path']}::{meta['name']}", lines 238 and 252
MatchKey(match) == NodeKey(match.metadata.path, match.metadata.name)

\* EmbeddingManager.query (embedding_manager.py lines 315-351) as the list
\* it returns: the hits in the order of their rank, which is opaque.  The
\* similarity 1 / (1 + distance) of a hit is positive, here 1; a direct hit
\* carries no is_dependency key, here FALSE.
QueryMatches(top_k, meta, idx) ==
    {LET valid == SelectSeq(rank, LAMBDA i : i \in DOMAIN meta)
     IN [j \in DOMAIN valid |->
            [score |-> 1, metadata |-> meta[valid[j]], is_dependency |-> FALSE]] :
       rank \in UNION {IterationOrders(hits) : hits \in QueryHits(top_k, meta, idx)}}

\* lines 249-257: the names the graph relates to the matches
Dependencies(matches, g) ==
    UNION {g[k].calls \cup Range(g[k].called_by) :
              k \in {MatchKey(m) : m \in Range(matches)} \cap DOMAIN g}

RECURSIVE AddDependencies_IgnoresSeen(_, _, _, _, _, _)
\* AddDependencies with the test "key not in seen" of line 262 left out
AddDependencies_IgnoresSeen(enhanced, seen, names, n, g, meta) ==
    IF n > Len(names) * Len(KeyOrder) THEN enhanced
    ELSE LET dep_name == names[((n - 1) \div Len(KeyOrder)) + 1]
             key == KeyOrder[((n - 1) % Len(KeyOrder)) + 1]
             found == ExistingIndex(meta, key)
         IN IF key \in DOMAIN g /\ g[key].name = dep_name
            THEN AddDependencies_IgnoresSeen(
                     IF found # 0
                     THEN Append(enhanced, [score |-> 0, metadata |-> meta[found],
                                            is_dependency |-> TRUE])
                     ELSE enhanced,
                     seen \cup {key}, names, n + 1, g, meta)
            ELSE AddDependencies_IgnoresSeen(enhanced, seen, names, n + 1, g,
                                             meta)

RECURSIVE AddDependencies(_, _, _, _, _, _)
\* lines 260-273: step n of the loop over the dependency names and, for
\* each, over the nodes of the graph; a node of that name not seen yet is
\* marked seen and the first metadata entry of its file and name is added
AddDependencies(enhanced, seen, names, n, g, meta) ==
    IF n > Len(names) * Len(KeyOrder) THEN enhanced
    ELSE LET dep_name == names[((n - 1) \div Len(KeyOrder)) + 1]
             key == KeyOrder[((n - 1) % Len(KeyOrder)) + 1]
             node_key == NodeKey(g[key].file, g[key].name)
             found == ExistingIndex(meta, node_key)
         IN IF key \in DOMAIN g /\ g[key].name = dep_name /\ key \notin seen
            THEN AddDependencies(
                     IF found # 0
                     THEN Append(enhanced, [score |-> 0, metadata |-> meta[found],
                                            is_dependency |-> TRUE])
                     ELSE enhanced,
                     seen \cup {key}, names, n + 1, g, meta)
            ELSE AddDependencies(enhanced, seen, names, n + 1, g, meta)

\* _enhance_with_dependencies, lines 227-275: the lists it can return, one
\* for each order in which the set of dependency names is iterated
enhance_with_dependencies(matches, d, meta) ==
    IF ~d[GraphFile].exists THEN {matches}
    ELSE {AddDependencies(matches, {MatchKey(m) : m \in Range(matches)},
                          names, 1, d[GraphFile].data, meta) :
             names \in IterationOrders(Dependencies(matches, d[GraphFile].data))}

\* retrieve, lines 192-225, on the matches the vector search returned
retrieve(raw_matches, include_dependencies) ==
    IF ~include_dependencies THEN {raw_matches}
    ELSE enhance_with_dependencies(raw_matches, disk, metadata)

(***************************************************************************)
(* RAG Orchestrator: prompt assembly  (src/app/rag_manager.py)             *)
(***************************************************************************)
MaxContextLength == 72

\* len() of the strings of the chunks
TextLength(str) ==
    CASE str \in {"a.py", "b.py"} -> 4
      [] str \in {"f", "g"} -> 1
      [] str \in {"c1", "c2"} -> 2

\* len(f"{path}::{name}")
KeyLength(key) == TextLength(key[1]) + 2 + TextLength(key[2])

\* line 336: len(f"# File: {key} (Score: {score:.4f})\n{code}\n")
ChunkTextLength(match) ==
    8 + KeyLength(MatchKey(match)) + 9 + 6 + 2
      + TextLength(match.metadata.code) + 1

\* line 351: len(f"# File: {rel_key} (related)\n{code}\n")
RelTextLength(match) ==
    8 + KeyLength(MatchKey(match)) + 11 + TextLength(match.metadata.code) + 1

\* line 318: get_related_keys
RelatedNames(match, g) ==
    IF MatchKey(match) \in DOMAIN g
    THEN g[MatchKey(match)].calls \cup Range(g[MatchKey(match)].called_by)
    ELSE {}

\* lines 321 and 348: the match all_chunks holds under the first of its keys
\* that ends with "::" + rel_name, 0 if there is none.  The dict keeps a key
\* at the place of its first match and holds its last match.
RelatedMatch(matches, rel_name) ==
    LET named == {i \in DOMAIN matches : matches[i].metadata.name = rel_name}
        first == CHOOSE i \in named : \A j \in named : i <= j
        same == {i \in DOMAIN matches : MatchKey(matches[i]) = MatchKey(matches[first])}
    IN IF named = {} THEN 0
       ELSE CHOOSE i \in same : \A j \in same : j <= i

RECURSIVE AddRelated(_, _, _, _, _)
\* lines 347-360: the related chunks of one match, the names taken in the
\* order given
AddRelated(acc, names, n, matches, max_context_length) ==
    IF n > Len(names) THEN acc
    ELSE LET r == RelatedMatch(matches, names[n])
             rel_key == MatchKey(matches[r])
             len == RelTextLength(matches[r])
         IN IF r = 0 \/ rel_key \in acc.seen
                 \/ acc.context_length + len > max_context_length
            THEN AddRelated(acc, names, n + 1, matches, max_context_length)
            ELSE AddRelated(
                     [seen |-> acc.seen \cup {rel_key},
                      context_blocks |-> Append(acc.context_blocks,
                          [key |-> rel_key, related |-> TRUE, length |-> len]),
                      context_length |-> acc.context_length + len],
                     names, n + 1, matches, max_context_length)

RECURSIVE CollectBlocks(_, _, _, _, _, _)
\* lines 329-360: the loop over the matches from match i on
CollectBlocks(acc, i, matches, g, name_order, max_context_length) ==
    IF i > Len(matches) THEN acc
    ELSE LET key == MatchKey(matches[i])
             len == ChunkTextLength(matches[i])
             names == SelectSeq(name_order,
                          LAMBDA x : x \in RelatedNames(matches[i], g))
         IN IF key \in acc.seen \/ acc.context_length + len > max_context_length
            THEN CollectBlocks(acc, i + 1, matches, g, name_order,
                               max_context_length)
            ELSE CollectBlocks(
                     AddRelated(
                         [seen |-> acc.seen \cup {key},
                          context_blocks |-> Append(acc.context_blocks,
                              [key |-> key, related |-> FALSE, length |-> len]),
                          context_length |-> acc.context_length + len],
                         names, 1, matches, max_context_length),
                     i + 1, matches, g, name_order, max_context_length)

RECURSIVE SumLengths(_, _)
SumLengths(blocks, i) ==
    IF i > Len(blocks) THEN 0 ELSE blocks[i].length + SumLengths(blocks, i + 1)

\* line 365: len("\n".join(context_blocks))
JoinedLength(blocks) ==
    IF blocks = <<>> THEN 0 ELSE SumLengths(blocks, 1) + (Len(blocks) - 1)

\* lines 304-310: the graph build_prompt loads
LoadedGraph(d) == IF d[GraphFile].exists THEN d[GraphFile].data ELSE EmptyDict

\* the function names of the graph, in the orders a set of them is iterated
NameOrders(g) == IterationOrders({g[k].name : k \in DOMAIN g})

\* build_prompt, lines 277-378
build_prompt(raw_matches, max_context_length) ==
    \E matches \in retrieve(raw_matches, TRUE) :
    \E name_order \in NameOrders(LoadedGraph(disk)) :
    \E c \in {CollectBlocks([seen |-> {}, context_blocks |-> <<>>,
                              context_length |-> 0],
                             1, matches, LoadedGraph(disk), name_order,
                             max_context_length)} :
       /\ last' = [op |-> "build_prompt",
                   max_context_length |-> max_context_length,
                   matches |-> matches,
                   context_blocks |-> c.context_blocks,
                   context |-> JoinedLength(c.context_blocks)]
       /\ UNCHANGED <<em_vars, env_vars, disk, scan_file_hashes, gb_vars,
                      app_vars>>

\* build_prompt changes nothing of what it reads, so a second call in a
\* behaviour would only repeat the first: one call is taken per behaviour
BuildPrompt ==
    /\ last.op # "build_prompt"
    /\ \E top_k \in 1..MaxTopK :
       \E raw_matches \in QueryMatches(top_k, metadata, index) :
       \E max_context_length \in 0..MaxContextLength :
           build_prompt(raw_matches, max_context_length)

\* a dependency graph as build_graph persists it for two functions that
\* call each other
MutualGraph ==
    [k \in EmKeys |->
        [file |-> k[1], name |-> k[2],
         calls |-> {j[2] : j \in EmKeys \ {k}},
         called_by |-> [i \in 1..1 |-> CHOOSE n \in {j[2] : j \in EmKeys \ {k}} : TRUE]]]

\* an index into which one list of chunks with distinct keys was upserted,
\* with or without a persisted graph
InitPrompt ==
    /\ \E chunks \in SeqsUpTo(EmChunks, MaxInput) :
         /\ \A i, j \in DOMAIN chunks :
               i # j => get_chunk_key(chunks[i]) # get_chunk_key(chunks[j])
         /\ \E u \in {UpsertOutcome(chunks, DefaultBatchSize, {}, <<>>, <<>>,
                                     EmptyDict)} :
               /\ metadata = u.meta
               /\ index = u.idx
               /\ chunk_hashes = u.hashes
    /\ em_last = [op |-> "upsert"]
    /\ em_trace = FALSE
    /\ fs = [p \in Files |-> NoFile]
    /\ unreadable = {}
    /\ unlistable = {}
    /\ disk \in {[f \in DiskFiles |-> NoDiskFile],
                 [f \in DiskFiles |->
                     IF f = GraphFile THEN Saved(MutualGraph) ELSE NoDiskFile]}
    /\ ScanInit
    /\ GbInit
    /\ OrchIdle

PromptNext == BuildPrompt

\* prompts assembled over an index that was filled once
SpecPrompt == InitPrompt /\ [][PromptNext]_vars

(***************************************************************************)
(* Claims about the Embedding Manager                                      *)
(***************************************************************************)
\* the number of stored chunks whose path is in paths
ChunksOfPaths(meta, paths) ==
    Cardinality({i \in DOMAIN meta : meta[i].path \in paths})

KeysDistinct(chunks) ==
    \A i, j \in DOMAIN chunks :
        i # j => get_chunk_key(chunks[i]) # get_chunk_key(chunks[j])

\* C2: after any sequence of completed upsert_chunks and remove_chunks calls
\* from a new empty index, the metadata list is as long as the index holds
\* vectors.
C2_MetadataAlignedWithIndex == Len(metadata) = Len(index)

\* C2 witness: a remove_chunks call has completed after upserts, took
\* something out and left something in.
C2_Witness ==
    /\ em_last.op = "remove"
    /\ em_last.removed > 0
    /\ Len(metadata) > 0

\* C3: in an upsert whose list mixes new and changed chunks (distinct keys,
\* no embedding failure) every chunk classified as changed replaces the
\* metadata entry at its own previous position, and every chunk classified
\* as new is appended together with the vector embedded from its own code.
C3_EachChunkAtItsOwnPosition ==
    (/\ em_last.op = "upsert"
     /\ em_last.failed = {}
     /\ KeysDistinct(em_last.chunks))
    => \A j \in DOMAIN em_last.proc :
         IF em_last.cls[j] # 0
         THEN metadata[em_last.cls[j]] = em_last.proc[j]
         ELSE \E i \in DOMAIN metadata :
                 /\ i > em_last.pre_len
                 /\ i \in DOMAIN index
                 /\ metadata[i] = em_last.proc[j]
                 /\ index[i] = Encode(em_last.proc[j].code)

\* C4: calling upsert_chunks twice in succession with the same list (no
\* embedding failure in either call) makes the second call report
\* added = 0 and updated = 0 and leaves the vector count and the metadata
\* list unchanged.
C4_SecondUpsertIsNoOp ==
    [][(/\ em_last.op = "upsert"
        /\ em_last'.op = "upsert"
        /\ em_last'.chunks = em_last.chunks
        /\ em_last.failed = {}
        /\ em_last'.failed = {})
       => (/\ em_last'.result.added = 0
           /\ em_last'.result.updated = 0
           /\ Len(index') = Len(index)
           /\ metadata' = metadata)]_vars

\* C5: remove_chunks(paths) reduces the vector count and the metadata length
\* by exactly the number of stored chunks whose path is in paths, and no
\* query made afterwards returns metadata whose path is in paths.
C5_RemoveShrinksByPathCount ==
    [][em_last'.op = "remove"
       => LET n == ChunksOfPaths(metadata, em_last'.paths)
          IN /\ Len(metadata') = Len(metadata) - n
             /\ Len(index') = Len(index) - n
             /\ \A top_k \in 1..(Len(index') + 1) :
                  \A res \in QueryResults(top_k, metadata', index') :
                    \A m \in res : m.path \notin em_last'.paths]_vars

\* C5 witness: a remove_chunks call that removed chunks and retained others.
C5_Witness ==
    /\ em_last.op = "remove"
    /\ em_last.removed > 0
    /\ ~em_last.raised
    /\ Len(metadata) > 0
    /\ Len(index) > 0

TrackedPresent ==
    {p \in Files :
        /\ Exists(p)
        /\ Entries(p).ext \in TrackExtensions
        /\ ~SkippedEntry(Entries(p).name)
        /\ \A i \in DOMAIN Entries(p).dirs : ~SkippedEntry(Entries(p).dirs[i])}

\* C7: every path scan_for_changes (no max_depth given) returns is a tracked path that is new or
\* whose fingerprint differs from the stored one (any present tracked path
\* under force_rescan) or a stored path that is no longer present, and
\* after the call the stored map has no entry for a path that is no longer
\* present.
C7_ReturnsOnlyTheChanges ==
    (last.op = "scan" /\ last.max_depth = NoDepthLimit)
    => LET gone == {p \in DOMAIN last.stored : ~Exists(p)}
           differ == {p \in TrackedPresent :
                         \/ p \notin DOMAIN last.stored
                         \/ last.stored[p] # Sha256(fs[p])}
       IN /\ last.changed_files \subseteq
                (IF last.force_rescan THEN TrackedPresent ELSE differ) \cup gone
          /\ \A p \in DOMAIN scan_file_hashes : Exists(p)

(***************************************************************************)
(* Claims about the Dependency Graph Builder                               *)
(***************************************************************************)
\* C8: after build_graph, for every top-level function g defined in a file
\* and every top-level function f that calls g by name, the node of f lists
\* g in calls and a node named g exists whose called_by lists f, also when
\* g makes no call.
C8_CalleeNodeListsCaller ==
    last.op = "build_graph"
    => \A p, q \in AllPythonFiles \ unreadable :
         \A f \in fs[p].defs, g \in fs[q].defs :
           g.name \in f.calls
           => /\ NodeKey(p, f.name) \in DOMAIN graph
              /\ g.name \in graph[NodeKey(p, f.name)].calls
              /\ NodeKey(q, g.name) \in DOMAIN graph
              /\ \E i \in DOMAIN graph[NodeKey(q, g.name)].called_by :
                    graph[NodeKey(q, g.name)].called_by[i] = f.name

\* C9: a build_graph call, the first one of a new session included, leaves
\* in the persisted graph every node the persisted graph held for a file
\* whose content did not change.
C9_PersistedNodesOfUnchangedFilesKept ==
    [][last'.op = "build_graph"
       => \A k \in DOMAIN disk[GraphFile].data :
            (/\ k[1] \in AllPythonFiles
             /\ ~FileChanged(k[1], gb_file_hashes, disk))
            => k \in DOMAIN disk'[GraphFile].data]_vars

\* C10: the Builder saving its map does not change the map the Scanner
\* loads at its next construction, and the Scanner saving its map does not
\* change the map the Builder gets from load_hashes().
C10_HashFilesSeparate ==
    [][/\ last'.op = "build_graph"
          => LoadFileHashes(disk') = LoadFileHashes(disk)
       /\ last'.op = "scan"
          => LoadHashes(disk', EmptyDict) = LoadHashes(disk, EmptyDict)]_vars

(***************************************************************************)
(* Claims about the Orchestrator                                           *)
(***************************************************************************)
\* C1: after a sync has run to completion, the metadata holds no chunk of a
\* file that is gone from the directory and the chunk-hash map has no key
\* of such a file.
C1_DeletedFilePurgedFromIndex ==
    (last.op = "sync" /\ last.status = "success")
    => \A p \in Files :
         ~Exists(p)
         => /\ \A i \in DOMAIN metadata : metadata[i].path # p
            /\ \A k \in DOMAIN chunk_hashes : k[1] # p

\* the keys of a list of matches
KeysOf(matches) == {MatchKey(m) : m \in Range(matches)}

\* C11: for the same query, top_k and index state, the list of
\* retrieve(include_dependencies = true) holds every entry of the list of
\* retrieve(include_dependencies = false); the entries it adds are tagged
\* is_dependency with score 0, and none of them has the key of a direct hit
\* or of another added entry.
C11_DependenciesExtendDirectHits ==
    \A top_k \in 1..MaxTopK :
      \A raw \in QueryMatches(top_k, metadata, index) :
        \A plain \in retrieve(raw, FALSE), enhanced \in retrieve(raw, TRUE) :
          /\ Len(plain) <= Len(enhanced)
          /\ \A i \in DOMAIN plain : enhanced[i] = plain[i]
          /\ \A i \in (Len(plain) + 1)..Len(enhanced) :
                /\ enhanced[i].is_dependency
                /\ enhanced[i].score = 0
                /\ MatchKey(enhanced[i]) \notin KeysOf(plain)
                /\ \A j \in (Len(plain) + 1)..Len(enhanced) :
                      j # i => MatchKey(enhanced[j]) # MatchKey(enhanced[i])

\* C11 witness: an index and a persisted graph for which some retrieval with
\* dependencies adds an entry to the direct hits.
C11_Witness ==
    \E top_k \in 1..MaxTopK :
      \E raw \in QueryMatches(top_k, metadata, index) :
        \E enhanced \in retrieve(raw, TRUE) :
          /\ raw # <<>>
          /\ Len(enhanced) > Len(raw)

\* C12: the context build_prompt joins into the prompt is at most
\* max_context_length characters long, and every block in it is a whole
\* candidate block.
C12_ContextWithinBudget ==
    last.op = "build_prompt"
    => /\ last.context <= last.max_context_length
       /\ \A i \in DOMAIN last.context_blocks :
             \E j \in DOMAIN last.matches :
                /\ MatchKey(last.matches[j]) = last.context_blocks[i].key
                /\ last.context_blocks[i].length =
                      IF last.context_blocks[i].related
                      THEN RelTextLength(last.matches[j])
                      ELSE ChunkTextLength(last.matches[j])

(***************************************************************************)
(* Claims about the HTTP API and the automatic synchronisation             *)
(***************************************************************************)
\* C13: after a POST /auto_sync that carries an interval, sync_interval is 30
\* when the interval is below 30 and the requested value otherwise, in the
\* enabling, the disabling and the interval-only branch alike.
C13_IntervalClampedInEveryBranch ==
    /\ (response.endpoint = "POST /auto_sync" /\ response.status = 200
           /\ response.interval.given)
       => sync_interval = IF response.interval.value < 30 THEN 30
                          ELSE response.interval.value
    /\ \A enabled \in BOOLEAN : \A interval \in Intervals \ {NoInterval} :
          SetAutoSyncOutcome(enabled, interval, auto_sync, sync_interval,
                             sync_thread).sync_interval
             = IF interval.value < 30 THEN 30 ELSE interval.value

\* C13 witness: a request that disabled the synchronisation and carried 29.
C13_Witness ==
    /\ response.endpoint = "POST /auto_sync"
    /\ response.status = 200
    /\ response.interval = Interval(29)
    /\ ~auto_sync
    /\ sync_interval = 30

\* C14: after the Control Panel's toggle was applied with the interval the
\* operator entered, the Orchestrator's sync_interval is at least 30.
C14_ToggleKeepsMinimumInterval ==
    (last.op = "_toggle_auto_sync" /\ last.entered.given)
    => sync_interval >= 30

\* the header of the last request is missing or differs from the secret
BadHeader ==
    response.x_api_key = NoHeader \/ response.x_api_key # API_KEY

\* what a request can change besides the response
served_vars ==
    <<em_vars, env_vars, disk, scan_file_hashes, gb_vars, history_last,
      auto_sync, sync_interval, sync_thread, file_tree_cache,
      background_tasks, last>>

\* C15: with a non-empty secret every endpoint but GET / answers 401 exactly
\* to the requests whose X-API-Key header is missing or differs from it, and
\* such a request runs no Orchestrator operation and changes nothing; GET /
\* is answered whatever the header, and with an empty secret every request
\* is accepted.
C15_ApiKeyGate ==
    /\ [](response.endpoint \notin {"none", "startup"}
            => /\ response.endpoint = "GET /" => response.status = 200
               /\ API_KEY = "" => response.status = 200
               /\ (API_KEY # "" /\ response.endpoint # "GET /")
                  => (response.status = 401 <=> BadHeader)
               /\ response.status = 401 => response.operation = "none")
    /\ [][(response'.endpoint \notin {"none", "startup"}
             /\ response' # response /\ response'.status = 401)
            => UNCHANGED served_vars]_vars

\* C15 witness: a rebuild asked for with a wrong key was turned away.
C15_Witness ==
    /\ API_KEY = Secret
    /\ response.endpoint = "POST /rebuild"
    /\ response.x_api_key = "wrong"
    /\ response.status = 401

\* C16: after sync_directory or update_context_on_change found changes,
\* after build_index and after handle_file_changes, the file-tree cache is
\* empty.
C16_CacheEmptyAfterMutation ==
    \/ last.op = "build_index"
    \/ (last.op = "sync" /\ last.changed_files # {})
    => ~file_tree_cache.cached

\* C17: stop_auto_sync() on an Orchestrator whose loop thread is alive
\* clears the marker; a cycle (a sync_directory call) is begun only by the
\* loop's test finding the marker set; and from a cleared marker with the
\* thread alive, the thread terminates unless the synchronisation is
\* enabled again.
C17_StoppedLoopTerminates ==
    /\ [][(StopAutoSync /\ is_alive(sync_thread)) => ~auto_sync']_vars
    /\ [][(sync_thread' = "cycle" /\ sync_thread # "cycle")
            => (auto_sync /\ sync_thread = "test")]_vars
    /\ (~auto_sync /\ is_alive(sync_thread))
          ~> (sync_thread = "dead" \/ auto_sync)

\* C17 witness: the loop thread ended after a stop_auto_sync().
C17_Witness ==
    /\ last.op = "stop_auto_sync"
    /\ ~auto_sync
    /\ sync_thread = "dead"

(***************************************************************************)
(* Claims about the Control Panel's processes and the file watch           *)
(***************************************************************************)
\* C18: stop_process(id) for a tracked id leaves id untracked and returns a
\* boolean, whether the child had already ended or does not end within the
\* wait; for an untracked id it returns False and leaves the tracked set as
\* it was.
C18_StopProcessUntracksId ==
    last.op = "stop_process"
    => /\ last.returned \in BOOLEAN
       /\ last.tracked => last.process_id \notin DOMAIN processes
       /\ ~last.tracked => (~last.returned /\ processes = last.before)

\* C19: after cleanup_all_processes(), called directly or by the window
\* close, no process is tracked.
C19_CleanupLeavesNothingTracked ==
    last.op \in {"cleanup_all_processes", "stop"}
    => DOMAIN processes = {}

WindowChunks(chunks) == SelectSeq(chunks, LAMBDA c : c.kind = "window")

\* the number of values of range(0, n, 900)
RangeLength(n) == (n + 899) \div 900

\* C21: for a very large file of n >= 1 lines the window chunks start 900
\* lines apart, hold at most 1,000 lines, overlap their successor by 100
\* lines and cover every line once or twice; a trailing window of fewer than
\* 100 lines is dropped only when a window was already produced.
C21_WindowsCoverEveryLine ==
    last.op = "_process_large_file"
    => LET w == WindowChunks(last.chunks)
           n == last.total_lines
       IN /\ \A i \in DOMAIN w :
                /\ w[i].start_line = 900 * (i - 1) + 1
                /\ w[i].end_line - w[i].start_line + 1 <= 1000
                /\ i < Len(w)
                    => w[i].end_line - w[i + 1].start_line + 1 = 100
          /\ \A line \in 1..n :
                Cardinality({i \in DOMAIN w :
                               w[i].start_line <= line
                               /\ line <= w[i].end_line}) \in {1, 2}
          /\ Len(w) < RangeLength(n)
                => /\ Len(w) >= 1
                   /\ n - 900 * Len(w) < 100

\* C26: the counts returned by upsert_chunks cover the completed batches
\* only: 'added' is the number of vectors appended during the call and is
\* never negative, 'updated' is the number of metadata entries replaced,
\* also when the embedding of a batch fails.
C26_CountsCoverCompletedBatches ==
    (em_last.op = "upsert" /\ em_last.chunks # <<>>)
    => /\ em_last.result.added = em_last.additions
       /\ em_last.result.added >= 0
       /\ em_last.result.updated = em_last.updates

\* C23: after every build_graph, also one that follows an edit removing a
\* call from a file, for all nodes S and T of the graph S.name is in
\* T.called_by if and only if T.name is in S.calls.
C23_CalledByMirrorsCalls ==
    last.op = "build_graph"
    => \A s, t \in DOMAIN graph :
         (\E i \in DOMAIN graph[t].called_by :
             graph[t].called_by[i] = graph[s].name)
         <=> graph[t].name \in graph[s].calls

\* C24: after build_graph has parsed a changed file again, the nodes of the
\* graph whose file is that path are exactly the ones derived from the
\* file's current content; the node of a definition removed from the file is
\* gone.
C24_NodesOfChangedFileReplaced ==
    [][last'.op = "build_graph"
       => \A p \in {q \in AllPythonFiles :
                      FileChanged(q, gb_file_hashes, disk)} :
            {k \in DOMAIN graph' : graph'[k].file = p}
              = {NodeKey(n.file, n.name) : n \in NodesOfFile(p)}]_vars

\* C25: after POST /auto_sync with enabled = X has returned, whatever the
\* Orchestrator's state before and with or without an interval, the
\* auto_sync reported by GET /auto_sync and by GET / is X.
C25_ReportedFlagIsRequested ==
    /\ []((response.endpoint = "POST /auto_sync" /\ response.status = 200)
            => auto_sync = response.enabled)
    /\ [][(/\ response.endpoint = "POST /auto_sync"
           /\ response.status = 200
           /\ response'.endpoint \in {"GET /", "GET /auto_sync"}
           /\ response'.status = 200)
          => response'.auto_sync = response.enabled]_vars

\* C25 witness: GET /auto_sync answered after the synchronisation was
\* disabled while its loop thread slept.
C25_Witness ==
    /\ response.endpoint = "GET /auto_sync"
    /\ response.status = 200
    /\ ~response.auto_sync
    /\ sync_thread = "sleep"

\* C29: whenever the synchronisation has been enabled (POST /auto_sync with
\* enabled=true, or auto_sync set and start_auto_sync called) and is not
\* disabled afterwards, a loop thread is alive and sync_directory() is
\* eventually called again, also when the enable arrives while a loop that
\* was stopped before is still sleeping or exiting.
C29_EnabledLoopKeepsSyncing ==
    /\ [](auto_sync => is_alive(sync_thread))
    /\ auto_sync ~> (~auto_sync \/ sync_thread = "cycle")

\* the loop threads of the Orchestrator that are alive
AliveLoops ==
    (IF is_alive(sync_thread) THEN 1 ELSE 0)
    + Cardinality({i \in DOMAIN stray_threads : is_alive(stray_threads[i])})

\* C30: after any sequence or interleaving of start_auto_sync and
\* stop_auto_sync calls on one Orchestrator, at most one loop thread is
\* alive.
C30_AtMostOneLoopThread == AliveLoops <= 1


\* the trace of the manual sync
RequestTrace == calls["request"].trace

StepsOf(tr, steps) == {i \in DOMAIN tr : tr[i].step \in steps}

FileSteps == {"file_raised", "file_extracted", "file_skipped"}

\* C22: within one process_changed_files call, the rebuild of the graph is
\* the first thing done; no file is processed while a removal is in progress
\* and every file that is re-extracted had its chunks removed before; the
\* chunks are upserted once, after every file of the call was processed.
C22_GraphThenRemovalThenFilesThenUpsert ==
    LET tr == RequestTrace
        c == calls["request"]
    IN /\ tr # <<>> => /\ tr[1].step = "build_graph"
                       /\ StepsOf(tr, {"build_graph"}) = {1}
       /\ \A j \in StepsOf(tr, FileSteps) :
             /\ Cardinality(StepsOf(SubSeq(tr, 1, j), {"remove_chunks"}))
                   = Cardinality(StepsOf(SubSeq(tr, 1, j), {"removed"}))
             /\ StepsOf(tr, {"remove_chunks", "removed"}) \subseteq 1..(j - 1)
             /\ tr[j].step = "file_extracted" =>
                   \E i \in StepsOf(tr, {"removed"}) :
                      i < j /\ tr[j].detail \subseteq tr[i].detail
       /\ Cardinality(StepsOf(tr, {"upsert_chunks"})) <= 1
       /\ \A u \in StepsOf(tr, {"upsert_chunks"}) :
             /\ StepsOf(tr, FileSteps) \subseteq 1..(u - 1)
             /\ Cardinality(StepsOf(tr, FileSteps)) = Len(c.order)
             /\ tr[u].detail = Range(c.changed_chunks)

C22_Witness ==
    /\ calls["request"].pc = "done"
    /\ calls["request"].status = "success"
    /\ Cardinality(StepsOf(RequestTrace, {"removed"})) = 1
    /\ Cardinality(StepsOf(RequestTrace, {"file_extracted"})) = 2
    /\ Cardinality(StepsOf(RequestTrace, {"upsert_chunks"})) = 1
    /\ metadata # <<>>



\* the chunks of file rel_path among the chunks extracted by the manual sync
ExtractedOf(rel_path) ==
    {k \in DOMAIN calls["request"].changed_chunks :
        calls["request"].changed_chunks[k].path = rel_path}

\* C27: when the loop over the changed files of a call is over, whatever
\* file raised in it, every changed file was visited once, every visited
\* file that exists and has a tracked extension either raised itself or was
\* extracted, the chunks of every extracted file (the file and each of its
\* definitions) are among the chunks of the call, and the call upserts them
\* before it returns.
C27_FailedFileDoesNotStopTheOthers ==
    LET c == calls["request"]
        tr == RequestTrace
        visits == StepsOf(tr, FileSteps)
    IN c.pc \in {"analyse", "apply", "return", "done"}
       /\ c.status # "error" =>
          /\ Cardinality(visits) = Len(c.order)
          /\ \A k \in DOMAIN c.order :
                \E v \in visits :
                   /\ tr[v].detail = {get_relative_path(c.order[k])}
                   /\ tr[v].step = "file_skipped" =>
                         ~(/\ PathExists(c.order[k])
                           /\ Entries(get_relative_path(c.order[k])).ext
                                 \in TrackExtensions)
                   /\ tr[v].step = "file_extracted" =>
                         Cardinality(ExtractedOf(get_relative_path(c.order[k])))
                            = 1 + Cardinality(
                                     fs[get_relative_path(c.order[k])].defs)
          /\ \A u \in StepsOf(tr, {"upsert_chunks"}) :
                tr[u].detail = Range(c.changed_chunks)
          /\ c.pc \in {"return", "done"} /\ c.changed_chunks # <<>> =>
                StepsOf(tr, {"upsert_chunks"}) # {}

\* a.py raised first, sub/b.py was extracted after it and its chunks were
\* upserted
C27_Witness ==
    LET tr == RequestTrace
    IN /\ calls["request"].pc = "done"
       /\ \E i \in StepsOf(tr, {"file_raised"}) :
          \E j \in StepsOf(tr, {"file_extracted"}) :
          \E u \in StepsOf(tr, {"upsert_chunks"}) :
             /\ i < j /\ j < u
             /\ tr[u].detail # {}
             /\ \A ch \in tr[u].detail : ch.path = "sub/b.py"
       /\ \E i \in DOMAIN metadata : metadata[i].path = "sub/b.py"


\* C28: once a cycle of the loop thread and a manual sync that ran at the
\* same time have both finished, the metadata list and the vector index
\* have the same length.
C28_SameLengthAfterInterleavedSyncs ==
    (\A t \in Callers : calls[t].pc = "done") =>
        Len(metadata) = Len(index)


(***************************************************************************)
(* Claims about removals, rebuilds and the watch                           *)
(***************************************************************************)
\* position i of the store: the chunk and the vector at it
StoredPairs(meta, idx) == [i \in DOMAIN meta |-> <<meta[i], idx[i]>>]

\* C39: a remove_chunks(paths) call leaves, in their order, exactly the
\* (chunk, vector) pairs stored before it whose path is not in paths; when no
\* stored chunk has a path in paths, index, metadata and chunk hashes are
\* what they were.
C39_RemoveKeepsPairsAndOrder ==
    [][em_last'.op = "remove"
       => /\ StoredPairs(metadata', index')
                = SelectSeq(StoredPairs(metadata, index),
                            LAMBDA p : p[1].path \notin em_last'.paths)
          /\ (\A i \in DOMAIN metadata :
                 metadata[i].path \notin em_last'.paths)
                => UNCHANGED <<metadata, index, chunk_hashes>>]_vars

\* C39 witness: a call that removed one chunk and retained two, one of them
\* with a vector made from an earlier version of its code
C39_Witness ==
    /\ em_last.op = "remove"
    /\ em_last.removed = 1
    /\ Len(metadata) = 2
    /\ Len(index) = 2
    /\ \E i \in DOMAIN metadata : index[i] # Encode(metadata[i].code)


\* every metadata entry has a chunk-hash entry under its key, and the entry
\* is the content hash of that metadata entry
HashesDescribe(meta, hashes) ==
    \A i \in DOMAIN meta :
        /\ get_chunk_key(meta[i]) \in DOMAIN hashes
        /\ hashes[get_chunk_key(meta[i])] = compute_hash(meta[i])

\* C32: a completed upsert_chunks or remove_chunks call that starts with
\* every metadata entry described by its chunk-hash entry ends with every
\* metadata entry described by its chunk-hash entry, also when an embedding
\* batch of the call failed (stored and given chunks with distinct keys).
C32_HashesDescribeMetadata ==
    [][(/\ em_last'.op \in {"upsert", "remove"}
        /\ HashesDescribe(metadata, chunk_hashes)
        /\ KeysDistinct(metadata)
        /\ em_last'.op = "upsert" => KeysDistinct(em_last'.chunks))
       => HashesDescribe(metadata', chunk_hashes')]_vars


\* C33: after any sequence of upsert_chunks and remove_chunks calls, no two
\* metadata entries have the same key path::name.
C33_MetadataKeysUnique == KeysDistinct(metadata)


\* C34: when build_index() has completed, every chunk of the index belongs
\* to a file that is among the processable files of the directory as it is
\* now.
C34_BuildLeavesOnlyCurrentFiles ==
    last.op = "build_index" =>
        \A i \in DOMAIN metadata : metadata[i].path \in Range(ScanFiles)


\* C31: the loop of an Orchestrator that POST /rebuild replaced begins no
\* sync_directory() call after the replacement.
C31_ReplacedLoopStopsSyncing ==
    \A i \in DOMAIN replaced : replaced[i].syncs = 0


\* C36: a build_graph() call that directly follows another build_graph()
\* call, no file written or deleted in between, leaves the graph as it was.
C36_SecondBuildKeepsGraph ==
    [][(last.op = "build_graph" /\ last'.op = "build_graph")
       => graph' = graph]_vars


\* C37: after scan_for_changes, every path that was stored before the call
\* and still exists in the tree is still stored, and it is reported only
\* if the walk reached its directory (within max_depth, every directory on
\* the way listable).
C37_UnvisitedFilesKept ==
    last.op = "scan"
    => \A p \in DOMAIN last.stored :
          Exists(p)
          => /\ p \in DOMAIN scan_file_hashes
             /\ p \in last.changed_files
                   => DirectoryScanned(p, last.max_depth)


\* C38: a path in the buffer of the change handler is eventually passed to
\* the callback (which empties the buffer), also when no further event
\* arrives after the processing interval has elapsed.
C38_BufferedPathsReachCallback ==
    \A p \in {get_full_path(q) : q \in EventPaths} :
        (p \in handler_changed_files)
        ~> (last.op = "callback" /\ p \in last.paths)


\* the chunk keys of a list of chunks
SelectedKeys(chunks) == {get_chunk_key(c) : c \in Range(chunks)}

\* the keys build_index() hands to upsert_chunks for the directory as it is
BuildKeys == SelectedKeys(ProcessChunks(ScanFiles, 1))

\* the keys sync_directory(force_rescan=True) hands to upsert_chunks for the
\* directory as it is, no hash stored yet
ForcedSyncKeys ==
    LET s == ScanOutcome(TRUE, NoDepthLimit, EmptyDict)
        order == CHOOSE o \in IterationOrders(
                     {get_full_path(p) : p \in s.changed_files}) : TRUE
    IN SelectedKeys(ChangedChunks(order, 1))

\* C35: on an empty index and one directory content, the keys indexed by
\* build_index() are the keys sync_directory(force_rescan=True) selects, and
\* the keys indexed by the forced sync are the keys build_index() selects.
C35_BuildAndForcedSyncSelectAlike ==
    /\ (last.op = "build_index" /\ metadata # <<>>)
          => SelectedKeys(metadata) = ForcedSyncKeys
    /\ (last.op = "sync" /\ metadata # <<>>)
          => SelectedKeys(metadata) = BuildKeys

====
